---- MODULE Spec2Model ----
(***************************************************************************)
(* The TTS gateway of sglang-server/ws_gateway_tts/server.py: one /tts     *)
(* WebSocket connection is served by a reader task (GatewayApp.ws_tts), a  *)
(* writer task (sender_loop) and, per session, a synth loop.  The session  *)
(* module (SessionManager, SessionState) is modelled from its description. *)
(*                                                                         *)
(* Tasks are cooperative: a step of the model runs one task from one       *)
(* suspension point to the next.  The suspension points are: waiting for   *)
(* the next inbound frame, waiting for the next send_queue item, waiting   *)
(* for the synthesis backend, and a WebSocket send (the frame is written   *)
(* and the task then waits for the transport while it holds send_lock).    *)
(* A task that waits in a send delays only the other task's sends, so the  *)
(* wait is a state of its own only where the code after it matters: in the *)
(* resume loop (the next iteration) and after the writer's tts_end or      *)
(* error (the close).  A WebSocket that has been closed raises on send_str.*)
(***************************************************************************)
EXTENDS Integers, Sequences, FiniteSets, TLC

\* ---------------------------------------------------------------- bounds
MaxFrames == 3          \* inbound frames received, over all connections (Spec)
MaxFramesDeep == 4      \* the same, for the longer runs of SpecDeep
MaxUnits == 2           \* text units enqueued per session
MaxChunksPerUnit == 2   \* PCM chunks the engine yields for one unit
CacheMax == 2           \* replay cache capacity (default 64, scaled down)
MaxEvents == 3          \* LLM lines and gateway frames of one /chat connection
HighWater == 2          \* send_queue's high-water mark, scaled down from 1024

Conns == {1, 2}
SessionIds == {"s1", "s2"}
StartIds == {"s1"}      \* the session ids clients start; frames may name any id
Seqs == {1, 2}           \* the seq values clients use
None == "none"

\* ------------------------------------------------------- outbound frames
Frame(t, sid, q, us, ue, canc, code, via, unit) ==
    [type |-> t, sid |-> sid, seq |-> q, us |-> us, ue |-> ue,
     cancelled |-> canc, code |-> code, via |-> via, unit |-> unit]

\* via: "queue" = taken from send_queue by the writer, "direct" = written by
\* the reader task.
\* unit: the ordinal (in enqueue order) of the text unit a chunk was synthesized
\* from; 0 on every other frame.
StartAck(sid) == Frame("start_ack", sid, 0, 0, 0, FALSE, "", "direct", 0)
TtsEnd(sid, q, canc) == Frame("tts_end", sid, q, 0, 0, canc, "", "queue", 0)
ErrorFrame(sid, q, code) == Frame("error", sid, q, 0, 0, FALSE, code, "direct", 0)
AudioChunk(sid, q, us, ue, unit) ==
    Frame("audio_chunk", sid, q, us, ue, FALSE, "", "queue", unit)

\* CachedChunk.to_ws_message(session_id, seq): the cached range, the seq given.
ToWsMessage(chunk, sid, q) ==
    Frame("audio_chunk", sid, q, chunk.us, chunk.ue, FALSE, "", "direct", chunk.unit)

\* -------------------------------------------------------- inbound frames
InFrame(t, sid, q, last) == [type |-> t, sid |-> sid, seq |-> q, last |-> last]

InFrames ==
    {InFrame("start", s, 0, 0) : s \in StartIds}
    \cup {InFrame(t, s, q, 0) :
            t \in {"text_delta", "text_end", "cancel"}, s \in SessionIds, q \in Seqs}
    \cup {InFrame("resume", s, 0, l) : s \in SessionIds, l \in 0..MaxUnits}
    \cup {InFrame("unknown", "s1", 0, 0), InFrame("malformed", "s1", 0, 0)}

\* --------------------------------------------------------------- session
NoSession == [exists |-> FALSE]

NewSession ==
    [exists |-> TRUE, seq |-> 0, text_units |-> <<>>, unit_index |-> 0,
     finished |-> FALSE, cancelled |-> FALSE, send_queue |-> <<>>,
     cache |-> <<>>, synth |-> "none", cur |-> 0, nchunk |-> 0, enq |-> 0,
     produced |-> 0, loops |-> 0]

VARIABLES
    sess,            \* SessionManager: session_id -> SessionState
    st,              \* per connection: `state` (a session id, or None)
    rpc,             \* per connection: position of the reader task
    rk,              \* per connection: what the reader does after its pending write
    rout,            \* per connection: the frame the reader waits to write
    res,             \* per connection: the resume iteration (last, pos, ver)
    spc,             \* per connection: position of sender_loop
    wsClosed,        \* per connection: ws.closed
    wire,            \* per connection: frames written to the peer, in order
    sessions_total,  \* Metrics.sessions_total
    nleft,           \* inbound frames the run is still followed for
    active_connections,  \* Metrics.active_connections
    ttfa_recorded,   \* per connection: ws_tts's local ttfa_recorded
    ttfa_count       \* Metrics: number of TTFA samples observed

\* The orchestrator's /chat connection (src/orchestrator/server.py).
VARIABLES
    main_pc,          \* ws_chat: position of the handler
    main_exc,         \* ws_chat: the exception the handler is unwinding with
    llm_task,         \* _stream_sglang_deltas task
    tts_task,         \* _tts_bridge task (its reader loop)
    sender_task,      \* _tts_bridge's sender_loop task
    cancel_task,      \* client_cancel_loop task
    stop_task,        \* the stop.wait() task
    stop,             \* asyncio.Event stop
    cancel_requested, \* asyncio.Event cancel_requested
    tts_text_queue,   \* text for the bridge; None is the sentinel
    client_out,       \* messages sent to the client, in order
    client_closed,    \* ws.close() was called on the client socket
    tts_sent,         \* frames the bridge sent to the TTS gateway
    tts_inbox,        \* frames from the TTS gateway not yet read
    tts_received,     \* text frames read from the TTS gateway, in order
    tts_seq,          \* _tts_bridge: seq of the next frame to the gateway
    done_steps,       \* cleanup steps of ws_chat's finally that were carried out
    budget            \* environment events the run is still followed for

gvars == <<sess, st, rpc, rk, rout, res, spc, wsClosed, wire,
           sessions_total, nleft, active_connections, ttfa_recorded,
           ttfa_count>>

ovars == <<main_pc, main_exc, llm_task, tts_task, sender_task, cancel_task,
           stop_task, stop, cancel_requested, tts_text_queue, client_out,
           client_closed, tts_sent, tts_inbox, tts_received, tts_seq,
           done_steps, budget>>

\* _stream_sglang_deltas of src/orchestrator/server.py, line by line.
VARIABLES
    full_text,            \* the content deltas so far, concatenated
    tts_buffer,           \* text not yet put on the text queue
    tool_acc,             \* index -> ToolCallAccum
    text_queue,           \* what the streamer has put on tts_text_queue, in order
    llm_sent,             \* messages the streamer has sent to the client
    llm_pc,               \* "idle", "read" (in readline), "done", "failed", "cancelled"
    llm_res,              \* the value the streamer returns
    stop_set,             \* stop.is_set()
    tts_flush_min_chars,  \* TTS_FLUSH_MIN_CHARS
    tts_flush_on_punct,   \* TTS_FLUSH_ON_PUNCT
    tool_lines,           \* the tool_calls lists of the lines taken so far
    lines_left            \* lines the run is still followed for

\* The admission test at the head of ws_chat.
VARIABLES
    orch_api_key,         \* os.getenv("ORCH_API_KEY", "")
    query_api_key,        \* request.query.get("api_key", "")
    authorization,        \* request.headers.get("Authorization", "")
    auth_result           \* "pending", "401" or "upgraded"

\* The start_ack of the gateway's start branch.
VARIABLES
    audio_spec,           \* state.audio_spec
    start_ack             \* the start_ack payload, or what the branch raised

\* PiperTtsEngine.synthesize_pcm16_stream.
VARIABLES
    pcm,                  \* the bytes synthesize_pcm16 returned
    chunk_bytes,          \* the chunk_bytes argument
    channels,             \* spec.channels
    range_i,              \* the next i of range(0, len(pcm), chunk_bytes)
    yielded               \* the chunks yielded so far

\* The error counters of the gateway's Metrics.
VARIABLES
    errors_total_by_code, \* Metrics.errors_total_by_code
    backpressure_total,   \* Metrics.backpressure_total
    errors_sent,          \* per code: the error frames written to a peer
    error_events          \* error events the run is still followed for

\* The run-controller registry of the SAGA server and the connections of
\* /ws/run.
VARIABLES
    controllers,          \* app.state.controllers: per run_id the connection
                          \* whose controller is stored, 0 for no entry
    run_pc,               \* per connection: where ws_run is
    run_id                \* per connection: ws_run's local run_id

\* OuterLoop.run with its LoopState and TerminationChecker.
VARIABLES
    loop_pc,              \* where the generator is
    iteration,            \* state.iteration
    max_iters,            \* TerminationChecker.max_iters
    goal_thresholds,      \* TerminationChecker.goal_thresholds
    score_history,        \* state.score_history, in thousandths
    analysis_reports,     \* state.analysis_reports: goal_achievement of each
    analysis_result,      \* the local analysis_result: bound or not
    plan_result,          \* the local plan_result: bound or not
    termination_reason,   \* TerminationChecker._termination_reason
    final_reports,        \* the FinalReports yielded
    last_event,           \* the kind of the last event yielded
    final                 \* the FinalReport yielded

\* The review wait loop of ws_run, the control-message task and the
\* RunController they share.
VARIABLES
    review_pc,            \* where ws_run is with its HumanReviewRequest
    control_pc,           \* where _handle_control_messages is
    run_state,            \* controller.state
    stop_requested,       \* controller._stop_requested
    pause_event,          \* controller._pause_event is set
    socket_in,            \* the client's messages no receive_json has taken
    client_left           \* messages the client still sends

lvars == <<full_text, tts_buffer, tool_acc, text_queue, llm_sent, llm_pc,
           llm_res, stop_set, tts_flush_min_chars, tts_flush_on_punct,
           tool_lines, lines_left>>
avars == <<orch_api_key, query_api_key, authorization, auth_result>>
wvars == <<audio_spec, start_ack>>
pvars == <<pcm, chunk_bytes, channels, range_i, yielded>>

\* The variables of the components beside the gateway's connections and the
\* orchestrator's /chat handler.
xvars == <<lvars, avars, wvars, pvars>>

mvars == <<errors_total_by_code, backpressure_total, errors_sent, error_events>>
rvars == <<controllers, run_pc, run_id>>
tvars == <<loop_pc, iteration, max_iters, goal_thresholds, score_history,
           analysis_reports, analysis_result, plan_result, termination_reason,
           final_reports, last_event, final>>
hvars == <<review_pc, control_pc, run_state, stop_requested, pause_event,
           socket_in, client_left>>

\* The variables of the SAGA server and its outer loop.
svars == <<rvars, tvars, hvars>>

\* The variables of the gateway's error counters and of SAGA.
zvars == <<mvars, svars>>

vars == <<gvars, ovars, xvars, zvars>>

NoFrame == Frame("none", "", 0, 0, 0, FALSE, "", "", 0)
NoRes == [last |-> 0, pos |-> 0, ver |-> 0]

\* ws_chat before the first frame of the client: no task exists yet.
OrchInit ==
    /\ main_pc = "receive"
    /\ main_exc = None
    /\ llm_task = "none"
    /\ tts_task = "none"
    /\ sender_task = "none"
    /\ cancel_task = "none"
    /\ stop_task = "none"
    /\ stop = FALSE
    /\ cancel_requested = FALSE
    /\ tts_text_queue = <<>>
    /\ client_out = <<>>
    /\ client_closed = FALSE
    /\ tts_sent = <<>>
    /\ tts_inbox = <<>>
    /\ tts_received = <<>>
    /\ tts_seq = 1
    /\ done_steps = {}
    /\ budget = MaxEvents

\* The streamer before it is started.
LlmIdle ==
    /\ full_text = <<>>
    /\ tts_buffer = <<>>
    /\ tool_acc = <<>>
    /\ text_queue = <<>>
    /\ llm_sent = <<>>
    /\ llm_pc = "idle"
    /\ llm_res = <<>>
    /\ stop_set = FALSE
    /\ tts_flush_min_chars = 12
    /\ tts_flush_on_punct = TRUE
    /\ tool_lines = <<>>
    /\ lines_left = 0

\* No request at the door of /chat.
AuthIdle ==
    /\ orch_api_key = <<>>
    /\ query_api_key = <<>>
    /\ authorization = <<>>
    /\ auth_result = "idle"

\* No start_ack being built.
WavIdle ==
    /\ audio_spec = [audio_format |-> "pcm16_raw", sample_rate |-> 0, channels |-> 0]
    /\ start_ack = [sent |-> FALSE]

\* No synthesis being chunked.
PiperIdle ==
    /\ pcm = <<>>
    /\ chunk_bytes = 8192
    /\ channels = 1
    /\ range_i = 0
    /\ yielded = <<>>

\* The codes of the gateway's error frames.
ErrorCodes == {"bad_request", "internal_error", "backpressure", "resume_not_available"}

\* Metrics.__init__; no error event ahead.
MetricsIdle ==
    /\ errors_total_by_code = [k \in ErrorCodes |-> 0]
    /\ backpressure_total = 0
    /\ errors_sent = [k \in ErrorCodes |-> 0]
    /\ error_events = 0

\* The run_ids a client names and the connections of /ws/run.
MaxRuns == 3
RunIds == {"r1", "r2"}
RunConns == 1..MaxRuns

\* lifespan: an empty registry; no connection of /ws/run accepted.
RegistryIdle ==
    /\ controllers = [r \in RunIds |-> 0]
    /\ run_pc = [c \in RunConns |-> "closed"]
    /\ run_id = [c \in RunConns |-> None]

NoFinal == [total_iterations |-> 0, termination_reason |-> ""]

\* No run of the outer loop.
OuterLoopIdle ==
    /\ loop_pc = "idle"
    /\ iteration = 0
    /\ max_iters = 0
    /\ goal_thresholds = <<>>
    /\ score_history = <<>>
    /\ analysis_reports = <<>>
    /\ analysis_result = "unbound"
    /\ plan_result = "unbound"
    /\ termination_reason = ""
    /\ final_reports = 0
    /\ last_event = "none"
    /\ final = NoFinal

\* No review pending; RunController.__init__.
ReviewIdle ==
    /\ review_pc = "idle"
    /\ control_pc = "idle"
    /\ run_state = "idle"
    /\ stop_requested = FALSE
    /\ pause_event = TRUE
    /\ socket_in = <<>>
    /\ client_left = 0

SagaIdle == RegistryIdle /\ OuterLoopIdle /\ ReviewIdle

ZIdle == MetricsIdle /\ SagaIdle

\* The gateway with no connection, n inbound frames ahead.
GatewayInit(n) ==
    /\ sess = [s \in SessionIds |-> NoSession]
    /\ st = [c \in Conns |-> None]
    /\ rpc = [c \in Conns |-> "idle"]
    /\ rk = [c \in Conns |-> "continue"]
    /\ rout = [c \in Conns |-> NoFrame]
    /\ res = [c \in Conns |-> NoRes]
    /\ spc = [c \in Conns |-> "none"]
    /\ wsClosed = [c \in Conns |-> FALSE]
    /\ wire = [c \in Conns |-> <<>>]
    /\ sessions_total = 0
    /\ nleft = n
    /\ active_connections = 0
    /\ ttfa_recorded = [c \in Conns |-> FALSE]
    /\ ttfa_count = 0

InitWith(n) ==
    /\ GatewayInit(n)
    /\ OrchInit
    /\ ZIdle
    /\ LlmIdle
    /\ AuthIdle
    /\ WavIdle
    /\ PiperIdle

Init == InitWith(MaxFrames)
InitDeep == InitWith(MaxFramesDeep)

\* SessionState.enqueue_text_units: one text delta is one unit, appended FIFO.
EnqueueTextUnits(s) ==
    [s EXCEPT !.text_units = Append(@, s.enq + 1), !.enq = @ + 1]

\* A faulty start_synth_loop_if_needed: a loop is spawned whenever there is
\* work, whether one is running or not.
StartSynthLoopAlways(s) ==
    IF s.text_units # <<>> \/ s.finished
    THEN [s EXCEPT !.synth = IF @ = "none" THEN "idle" ELSE @, !.loops = @ + 1]
    ELSE s

\* SessionManager.start_synth_loop_if_needed; loops counts the synth loop
\* tasks of the session that have been spawned and have not ended.
StartSynthLoopIfNeeded(s) ==
    IF s.synth = "none" /\ (s.text_units # <<>> \/ s.finished)
    THEN [s EXCEPT !.synth = "idle", !.loops = @ + 1]
    ELSE s

\* SessionManager.cancel: set cancelled, drop the queued units, and interrupt
\* the synthesis in flight when the backend supports it.
CancelSession(s, interrupt) ==
    [s EXCEPT !.cancelled = TRUE, !.text_units = <<>>,
              !.synth = IF interrupt /\ @ = "busy" THEN "none" ELSE @,
              !.loops = IF interrupt /\ s.synth = "busy" THEN @ - 1 ELSE @]

\* The bounded replay cache: the newest CacheMax chunks.
CachePush(cache, chunk) ==
    IF Len(cache) >= CacheMax THEN Append(Tail(cache), chunk) ELSE Append(cache, chunk)

\* SessionManager.get_or_create
GetOrCreate(sid) ==
    IF sess[sid].exists THEN sess ELSE [sess EXCEPT ![sid] = NewSession]

\* ------------------------------------------------------------ synth loop
SynthPop(sid) ==
    LET s == sess[sid] IN
    /\ s.exists /\ s.synth = "idle" /\ ~s.cancelled /\ s.text_units # <<>>
    /\ sess' = [sess EXCEPT ![sid] =
                  [s EXCEPT !.text_units = Tail(@), !.cur = Head(s.text_units),
                            !.synth = "busy", !.nchunk = 0]]
    /\ UNCHANGED <<st, rpc, rk, rout, res, spc, wsClosed, wire,
                   sessions_total, nleft>>
    /\ UNCHANGED <<active_connections, ttfa_recorded, ttfa_count, ovars, xvars, zvars>>

\* The engine yields the next PCM chunk of the unit in hand: it is pushed to
\* send_queue and to the cache.  After the unit's last chunk unit_index is
\* incremented and the loop is back at its top.
SynthChunk(sid, last) ==
    LET s == sess[sid]
        chunk == AudioChunk(sid, s.seq, s.unit_index, s.unit_index + 1, s.cur)
    IN
    /\ s.exists /\ s.synth = "busy"
    /\ s.nchunk < MaxChunksPerUnit
    /\ s.nchunk + 1 = MaxChunksPerUnit => last
    /\ sess' = [sess EXCEPT ![sid] =
                  [s EXCEPT !.send_queue = Append(@, chunk),
                            !.cache = CachePush(@, chunk),
                            !.produced = @ + 1,
                            !.nchunk = IF last THEN 0 ELSE @ + 1,
                            !.unit_index = IF last THEN @ + 1 ELSE @,
                            !.synth = IF last THEN "idle" ELSE "busy"]]
    /\ UNCHANGED <<st, rpc, rk, rout, res, spc, wsClosed, wire,
                   sessions_total, nleft>>
    /\ UNCHANGED <<active_connections, ttfa_recorded, ttfa_count, ovars, xvars, zvars>>

SynthEnd(sid) ==
    LET s == sess[sid] IN
    /\ s.exists /\ s.synth = "idle" /\ ~s.cancelled
    /\ s.text_units = <<>> /\ s.finished
    /\ sess' = [sess EXCEPT ![sid] =
                  [s EXCEPT !.send_queue = Append(@, TtsEnd(sid, s.seq, FALSE)),
                            !.synth = "none", !.loops = @ - 1]]
    /\ UNCHANGED <<st, rpc, rk, rout, res, spc, wsClosed, wire,
                   sessions_total, nleft>>
    /\ UNCHANGED <<active_connections, ttfa_recorded, ttfa_count, ovars, xvars, zvars>>

SynthExit(sid) ==
    LET s == sess[sid] IN
    /\ s.exists /\ s.synth = "idle" /\ s.cancelled
    /\ sess' = [sess EXCEPT ![sid] = [s EXCEPT !.synth = "none", !.loops = @ - 1]]
    /\ UNCHANGED <<st, rpc, rk, rout, res, spc, wsClosed, wire,
                   sessions_total, nleft>>
    /\ UNCHANGED <<active_connections, ttfa_recorded, ttfa_count, ovars, xvars, zvars>>


\* ------------------------------------------------------- the connection
\* send_lock is free unless the writer holds it between its last frame and
\* its close.
LockFree(c) == spc[c] # "closing"

\* fail(): the session_id and the default seq of the error payload.
FailSid(c) == IF st[c] # None THEN st[c] ELSE ""
FailSeq(c) == IF st[c] # None THEN sess[st[c]].seq ELSE 0

\* The client opens a /tts connection; connections are numbered in the order
\* in which they are accepted.
Connect(c) ==
    /\ rpc[c] = "idle"
    /\ \A d \in Conns : d < c => rpc[d] # "idle"
    /\ rpc' = [rpc EXCEPT ![c] = "recv"]
    /\ active_connections' = active_connections + 1
    /\ UNCHANGED <<sess, st, rk, rout, res, spc, wsClosed, wire,
                   sessions_total, nleft>>
    /\ UNCHANGED <<ttfa_recorded, ttfa_count, ovars, xvars, zvars>>

\* `await sender_task` in the reader's `finally`, after sender_task.cancel():
\* a writer that had not ended by itself is cancelled, and awaiting it raises
\* asyncio.CancelledError, which is no Exception and passes `except Exception`.
AwaitCancelledRaises(c) == spc[c] \in {"get", "closing"}

\* The reader's `finally`: the writer task is cancelled and awaited; when the
\* await does not raise, the gauge is decremented and the socket closed.  The
\* socket is closed in either case once the handler has returned.
Finally(c) ==
    /\ rpc' = [rpc EXCEPT ![c] = "done"]
    /\ spc' = [spc EXCEPT ![c] = IF @ = "none" THEN "none" ELSE "done"]
    /\ wsClosed' = [wsClosed EXCEPT ![c] = TRUE]
    /\ active_connections' = IF AwaitCancelledRaises(c)
                             THEN active_connections
                             ELSE active_connections - 1

\* The peer closes the connection while the reader waits for a frame.
PeerDrop(c) ==
    /\ rpc[c] = "recv"
    /\ ~wsClosed[c]
    /\ Finally(c)
    /\ UNCHANGED <<sess, st, rk, rout, res, wire, sessions_total, nleft>>
    /\ UNCHANGED <<ttfa_recorded, ttfa_count, ovars, xvars, zvars>>

\* send_json_locked by the reader with the lock in hand, by what the write
\* belongs to: "continue" = the handler ends with `continue`; "resume" = the
\* resume loop goes on; "fail" = fail() closes the socket, the handler breaks
\* and the reader runs its `finally`.  On a closed socket send_str raises: the
\* handler at `except Exception` calls fail("internal_error"), whose own send
\* raises too, and the reader runs its `finally`.
Written(c, frame, k) ==
    IF wsClosed[c]
    THEN /\ Finally(c)
         /\ UNCHANGED wire
    ELSE /\ wire' = [wire EXCEPT ![c] = Append(@, frame)]
         /\ IF k = "fail"
            THEN Finally(c)
            ELSE /\ rpc' = [rpc EXCEPT ![c] = IF k = "resume" THEN "resume" ELSE "recv"]
                 /\ UNCHANGED <<spc, wsClosed, active_connections>>

\* send_json_locked by the reader: at once when the lock is free, else the
\* reader waits for the lock.
ReaderSend(c, frame, k) ==
    IF LockFree(c)
    THEN /\ Written(c, frame, k)
         /\ UNCHANGED <<rout, rk>>
    ELSE /\ rout' = [rout EXCEPT ![c] = frame]
         /\ rk' = [rk EXCEPT ![c] = k]
         /\ rpc' = [rpc EXCEPT ![c] = "lockwait"]
         /\ UNCHANGED <<wire, wsClosed, spc, active_connections>>

\* The reader gets send_lock after waiting for it.
ReaderWrite(c) ==
    /\ rpc[c] = "lockwait"
    /\ LockFree(c)
    /\ Written(c, rout[c], rk[c])
    /\ UNCHANGED <<sess, st, rk, rout, res, sessions_total, nleft>>
    /\ UNCHANGED <<ttfa_recorded, ttfa_count, ovars, xvars, zvars>>

\* A faulty fail(): the error is sent but the connection is left open.
FailKeepsOpen(c, code, q) ==
    ReaderSend(c, ErrorFrame(FailSid(c), q, code), "continue")

\* fail(code, seq = q)
Fail(c, code, q) == ReaderSend(c, ErrorFrame(FailSid(c), q, code), "fail")

\* `async for msg in ws` hands the reader its next frame.
CanRecv(c) == rpc[c] = "recv" /\ ~wsClosed[c] /\ nleft > 0

\* json.loads fails, the value is no object, or "type" is no string.
RecvMalformed(c) ==
    /\ CanRecv(c)
    /\ nleft' = nleft - 1
    /\ Fail(c, "bad_request", FailSeq(c))
    /\ UNCHANGED <<sess, st, res, sessions_total>>
    /\ UNCHANGED <<ttfa_recorded, ttfa_count, ovars, xvars, zvars>>

\* The start branch's `if sender_task is None or sender_task.done()`.
NeedsSender(c) == spc[c] \in {"none", "done"}

\* The start branch's state = get_or_create(...): the connection's session
\* after a start frame naming sid.
BindState(c, sid) == sid

\* The start branch from the writer task on: the task is created when there
\* is none running, and start_ack is written under send_lock.
StartAckSend(c, sid) ==
    IF NeedsSender(c)
    THEN /\ spc' = [spc EXCEPT ![c] = "get"]
         /\ wire' = [wire EXCEPT ![c] = Append(@, StartAck(sid))]
         /\ UNCHANGED <<rpc, rout, rk>>
    ELSE IF LockFree(c)
    THEN /\ wire' = [wire EXCEPT ![c] = Append(@, StartAck(sid))]
         /\ UNCHANGED <<rpc, rout, rk, spc>>
    ELSE /\ rout' = [rout EXCEPT ![c] = StartAck(sid)]
         /\ rk' = [rk EXCEPT ![c] = "continue"]
         /\ rpc' = [rpc EXCEPT ![c] = "lockwait"]
         /\ UNCHANGED <<wire, spc>>

\* msg_type == "start"
RecvStart(c, f) ==
    /\ CanRecv(c)
    /\ f.type = "start"
    /\ nleft' = nleft - 1
    /\ sess' = GetOrCreate(f.sid)
    /\ st' = [st EXCEPT ![c] = BindState(c, f.sid)]
    /\ sessions_total' = sessions_total + 1
    /\ StartAckSend(c, f.sid)
    /\ UNCHANGED <<res, wsClosed>>
    /\ UNCHANGED <<active_connections, ttfa_recorded, ttfa_count, ovars, xvars, zvars>>

\* Any other frame before a start: `if state is None`.
RecvNoState(c, f) ==
    /\ CanRecv(c)
    /\ f.type \notin {"start", "malformed"}
    /\ st[c] = None
    /\ nleft' = nleft - 1
    /\ Fail(c, "bad_request", 0)
    /\ UNCHANGED <<sess, st, res, sessions_total>>
    /\ UNCHANGED <<ttfa_recorded, ttfa_count, ovars, xvars, zvars>>

\* msg_type == "text_delta"
RecvTextDelta(c, f) ==
    /\ CanRecv(c)
    /\ f.type = "text_delta"
    /\ st[c] # None
    /\ sess[st[c]].enq < MaxUnits
    /\ nleft' = nleft - 1
    /\ IF f.sid # st[c]
       THEN /\ Fail(c, "bad_request", f.seq)
            /\ UNCHANGED sess
       ELSE /\ sess' = [sess EXCEPT ![st[c]] =
                  StartSynthLoopIfNeeded(EnqueueTextUnits([@ EXCEPT !.seq = f.seq]))]
            /\ UNCHANGED <<rout, rk, rpc, wire, wsClosed, spc, active_connections>>
    /\ UNCHANGED <<st, res, sessions_total>>
    /\ UNCHANGED <<ttfa_recorded, ttfa_count, ovars, xvars, zvars>>

\* msg_type == "text_end"
RecvTextEnd(c, f) ==
    /\ CanRecv(c)
    /\ f.type = "text_end"
    /\ st[c] # None
    /\ nleft' = nleft - 1
    /\ IF f.sid # st[c]
       THEN /\ Fail(c, "bad_request", f.seq)
            /\ UNCHANGED sess
       ELSE /\ sess' = [sess EXCEPT ![st[c]] =
                  StartSynthLoopIfNeeded([@ EXCEPT !.seq = f.seq, !.finished = TRUE])]
            /\ UNCHANGED <<rout, rk, rpc, wire, wsClosed, spc, active_connections>>
    /\ UNCHANGED <<st, res, sessions_total>>
    /\ UNCHANGED <<ttfa_recorded, ttfa_count, ovars, xvars, zvars>>

\* msg_type == "cancel": the session is cancelled and a tts_end carrying
\* cancelled = true is put at the tail of send_queue.
CancelBranch(s, sid, q, interrupt) ==
    LET t == CancelSession([s EXCEPT !.seq = q], interrupt) IN
    [t EXCEPT !.send_queue = Append(@, TtsEnd(sid, t.seq, TRUE))]

RecvCancel(c, f) ==
    /\ CanRecv(c)
    /\ f.type = "cancel"
    /\ st[c] # None
    /\ nleft' = nleft - 1
    /\ \E interrupt \in BOOLEAN :
         sess' = [sess EXCEPT ![st[c]] = CancelBranch(@, st[c], f.seq, interrupt)]
    /\ UNCHANGED <<st, rpc, rk, rout, res, spc, wsClosed, wire, sessions_total>>
    /\ UNCHANGED <<active_connections, ttfa_recorded, ttfa_count, ovars, xvars, zvars>>

\* msg_type is none of the known types, after a start.
RecvUnknown(c, f) ==
    /\ CanRecv(c)
    /\ f.type = "unknown"
    /\ st[c] # None
    /\ nleft' = nleft - 1
    /\ Fail(c, "bad_request", FailSeq(c))
    /\ UNCHANGED <<sess, st, res, sessions_total>>
    /\ UNCHANGED <<ttfa_recorded, ttfa_count, ovars, xvars, zvars>>

\* The message types whose frames are parsed by a codec class
\* (StartMessage, TextDeltaMessage, TextEndMessage, CancelMessage,
\* ResumeMessage).
ParsedTypes == {"start", "text_delta", "text_end", "cancel", "resume"}

\* A frame of a known type that lacks a required field or has a field of the
\* wrong type: <Type>Message.parse(obj) raises.  The branch has no handler of
\* its own, so the exception reaches `except Exception` and the handler
\* calls fail("internal_error").  Before a start, every type but start is
\* answered at `if state is None` without being parsed.
RecvInvalid(c, t) ==
    /\ CanRecv(c)
    /\ t = "start" \/ st[c] # None
    /\ nleft' = nleft - 1
    /\ Fail(c, "internal_error", FailSeq(c))
    /\ UNCHANGED <<sess, st, res, sessions_total>>
    /\ UNCHANGED <<ttfa_recorded, ttfa_count, ovars, xvars, zvars>>

\* The resume loop `for chunk in state.cache`: the position of the first
\* cached chunk at or after `from` that is not skipped by
\* `chunk.unit_index_end <= last`, or 0 when the iteration is exhausted.
NextResend(cache, last, from) ==
    LET hits == {i \in from..Len(cache) : ~(cache[i].ue <= last)} IN
    IF hits = {} THEN 0 ELSE CHOOSE i \in hits : \A j \in hits : i <= j

\* A faulty resume miss: resume_not_available goes through fail() and closes.
ResumeMissFails(c) ==
    ReaderSend(c, ErrorFrame(st[c], sess[st[c]].seq, "resume_not_available"),
               "fail")

\* What the resume branch does when the loop ends with resent == 0: the
\* error is written by the reader itself and the handler continues.
ResumeMiss(c) ==
    ReaderSend(c, ErrorFrame(st[c], sess[st[c]].seq, "resume_not_available"),
               "continue")

\* msg_type == "resume"
RecvResume(c, f) ==
    /\ CanRecv(c)
    /\ f.type = "resume"
    /\ st[c] # None
    /\ nleft' = nleft - 1
    /\ IF f.sid # st[c]
       THEN /\ Fail(c, "bad_request", FailSeq(c))
            /\ UNCHANGED res
       ELSE LET s == sess[st[c]]
                i == NextResend(s.cache, f.last, 1)
            IN
            IF i = 0
            THEN /\ ResumeMiss(c)
                 /\ UNCHANGED res
            ELSE /\ ReaderSend(c, ToWsMessage(s.cache[i], st[c], s.seq), "resume")
                 /\ res' = [res EXCEPT ![c] =
                              [last |-> f.last, pos |-> i, ver |-> s.produced]]
    /\ UNCHANGED <<sess, st, sessions_total>>
    /\ UNCHANGED <<ttfa_recorded, ttfa_count, ovars, xvars, zvars>>

\* The resume loop's next iteration, after the send of the previous chunk has
\* completed.  A cache that changed under the iteration raises RuntimeError,
\* handled at `except Exception` by fail("internal_error").
ResumeNext(c) ==
    /\ rpc[c] = "resume"
    /\ LET s == sess[st[c]]
           i == NextResend(s.cache, res[c].last, res[c].pos + 1)
       IN
       IF s.produced # res[c].ver
       THEN /\ Fail(c, "internal_error", FailSeq(c))
            /\ UNCHANGED res
       ELSE IF i = 0
       THEN /\ rpc' = [rpc EXCEPT ![c] = "recv"]
            /\ UNCHANGED <<rout, rk, res, wire, wsClosed, spc,
                            active_connections>>
       ELSE /\ ReaderSend(c, ToWsMessage(s.cache[i], st[c], s.seq), "resume")
            /\ res' = [res EXCEPT ![c].pos = i]
    /\ UNCHANGED <<sess, st, sessions_total, nleft>>
    /\ UNCHANGED <<ttfa_recorded, ttfa_count, ovars, xvars, zvars>>

\* The receive loop ends because the socket is closed: the reader runs its
\* `finally`.
Teardown(c) ==
    /\ rpc[c] = "recv"
    /\ wsClosed[c]
    /\ Finally(c)
    /\ UNCHANGED <<sess, st, rk, rout, res, wire, sessions_total, nleft>>
    /\ UNCHANGED <<ttfa_recorded, ttfa_count, ovars, xvars, zvars>>

\* A faulty stop test: the writer closes after an error only.
SenderStopsOnError(msg) == msg.type = "error"

\* A faulty stop test: the writer never closes.
SenderNeverStops(msg) == FALSE

\* ----------------------------------------------------------- sender_loop
\* `if msg.get("type") in ("tts_end", "error")`: the writer closes and ends.
SenderStops(msg) == msg.type \in {"tts_end", "error"}

\* A faulty queue (LIFO): the writer is handed the newest message.
QueueGetNewest(q) == q[Len(q)]

\* The item `await state.send_queue.get()` hands to the writer.
QueueGet(q) == Head(q)

\* One turn of sender_loop: take a message and write it under send_lock.  A
\* send on a closed socket raises; the writer closes and ends.
SenderGet(c) ==
    /\ spc[c] = "get"
    /\ sess[st[c]].send_queue # <<>>
    /\ LET msg == QueueGet(sess[st[c]].send_queue) IN
       /\ sess' = [sess EXCEPT ![st[c]].send_queue = Tail(@)]
       /\ IF ~ttfa_recorded[c] /\ msg.type = "audio_chunk"
          THEN /\ ttfa_recorded' = [ttfa_recorded EXCEPT ![c] = TRUE]
               /\ ttfa_count' = ttfa_count + 1
          ELSE UNCHANGED <<ttfa_recorded, ttfa_count>>
       /\ IF wsClosed[c]
          THEN /\ spc' = [spc EXCEPT ![c] = "done"]
               /\ UNCHANGED wire
          ELSE /\ wire' = [wire EXCEPT ![c] = Append(@, msg)]
               /\ spc' = [spc EXCEPT ![c] = IF SenderStops(msg) THEN "closing" ELSE "get"]
    /\ UNCHANGED <<st, rpc, rk, rout, res, wsClosed, sessions_total, nleft>>
    /\ UNCHANGED <<active_connections, ovars, xvars, zvars>>

\* After tts_end or error: `await ws.close(); break`.
SenderClose(c) ==
    /\ spc[c] = "closing"
    /\ wsClosed' = [wsClosed EXCEPT ![c] = TRUE]
    /\ spc' = [spc EXCEPT ![c] = "done"]
    /\ UNCHANGED <<sess, st, rpc, rk, rout, res, wire, sessions_total, nleft>>
    /\ UNCHANGED <<active_connections, ttfa_recorded, ttfa_count, ovars, xvars, zvars>>

\* ------------------------------------------------------- specification
Next ==
    \/ \E c \in Conns : Connect(c)
    \/ \E c \in Conns : PeerDrop(c)
    \/ \E c \in Conns : RecvMalformed(c)
    \/ \E c \in Conns, f \in InFrames : RecvStart(c, f)
    \/ \E c \in Conns, f \in InFrames : RecvNoState(c, f)
    \/ \E c \in Conns, f \in InFrames : RecvTextDelta(c, f)
    \/ \E c \in Conns, f \in InFrames : RecvTextEnd(c, f)
    \/ \E c \in Conns, f \in InFrames : RecvCancel(c, f)
    \/ \E c \in Conns, f \in InFrames : RecvResume(c, f)
    \/ \E c \in Conns, f \in InFrames : RecvUnknown(c, f)
    \/ \E c \in Conns, t \in ParsedTypes : RecvInvalid(c, t)
    \/ \E c \in Conns : ReaderWrite(c)
    \/ \E c \in Conns : ResumeNext(c)
    \/ \E c \in Conns : Teardown(c)
    \/ \E c \in Conns : SenderGet(c)
    \/ \E c \in Conns : SenderClose(c)
    \/ \E sid \in SessionIds : SynthPop(sid)
    \/ \E sid \in SessionIds, last \in BOOLEAN : SynthChunk(sid, last)
    \/ \E sid \in SessionIds : SynthEnd(sid)
    \/ \E sid \in SessionIds : SynthExit(sid)

Spec == Init /\ [][Next]_vars
SpecDeep == InitDeep /\ [][Next]_vars

\* One connection on the happy path: start, text_delta frames and a text_end
\* of its own session, nothing after the text_end, a peer that stays.  The
\* event loop runs every task that is ready: the synth loop, the writer and
\* the reader's teardown are weakly fair; the peer's frames are not.
HappyFrames ==
    {f \in InFrames : f.sid = "s1" /\ f.type \in {"start", "text_delta", "text_end"}}

NextHappy ==
    \/ Connect(1)
    \/ \E f \in HappyFrames : st[1] = None /\ RecvStart(1, f)
    \/ \E f \in HappyFrames : st[1] # None /\ ~sess["s1"].finished /\ RecvTextDelta(1, f)
    \/ \E f \in HappyFrames : st[1] # None /\ ~sess["s1"].finished /\ RecvTextEnd(1, f)
    \/ Teardown(1)
    \/ SenderGet(1)
    \/ SenderClose(1)
    \/ SynthPop("s1")
    \/ \E last \in BOOLEAN : SynthChunk("s1", last)
    \/ SynthEnd("s1")

SpecHappy ==
    /\ InitDeep
    /\ [][NextHappy]_vars
    /\ WF_vars(Teardown(1))
    /\ WF_vars(SenderGet(1))
    /\ WF_vars(SenderClose(1))
    /\ WF_vars(SynthPop("s1"))
    /\ WF_vars(\E last \in BOOLEAN : SynthChunk("s1", last))
    /\ WF_vars(SynthEnd("s1"))

\* ============================================================ orchestrator
\* One /chat connection of src/orchestrator/server.py: the handler ws_chat,
\* the LLM streamer task, the bridge task with its sender sub-task, the
\* cancel listener and the stop.wait() task.

\* ---------------------------------------------------------------- JSON
\* A text frame: the JSON value it encodes and whether it is written in the
\* compact form of json_dumps (separators "," and ":").
Text(obj, compact) == [obj |-> obj, compact |-> compact]

\* json.loads(msg.data)
JsonLoads(text) == text.obj

\* json_dumps(obj): always the compact form.
JsonDumps(obj) == Text(obj, TRUE)

\* A JSON object, by the fields the orchestrator and the model look at.
Obj(t, canc, q) == [type |-> t, cancelled |-> canc, seq |-> q]

\* The text_delta frame of sender_loop: seq and the text taken from the queue.
TextDelta(q, text) ==
    [type |-> "text_delta", cancelled |-> FALSE, seq |-> q, text |-> text]

\* The text segments of one connection, named in the order the streamer
\* pushes them.
SegNames == <<"t1", "t2", "t3", "t4", "t5", "t6">>

\* ws_send_json(ws, payload): the client is sent json_dumps(payload).
WsSendJson(out, payload) == Append(out, JsonDumps(payload))

\* The frames a TTS gateway sends: JSON text frames of its message types (in
\* either spacing), and frames that are no text (ping, binary).
TtsTypes == {"start_ack", "audio_chunk", "tts_end", "error"}
TtsFrames ==
    {Text(Obj(t, FALSE, 0), k) : t \in {"audio_chunk", "error"}, k \in BOOLEAN}
    \cup {Text(Obj("tts_end", canc, 0), TRUE) : canc \in BOOLEAN}
    \cup {Text(Obj("binary", FALSE, 0), TRUE)}

\* msg.type != WSMsgType.TEXT
IsTextFrame(msg) == msg.obj.type # "binary"

\* ------------------------------------------------------------------ tasks
\* A task has ended: it returned, raised an exception, or was cancelled.
Terminal(t) == t \in {"done", "failed", "cancelled"}
Running(t) == t \notin {"none", "done", "failed", "cancelled"}

\* What `await task` raises in the awaiting coroutine once the task has ended.
AwaitRaises(t) ==
    IF t = "cancelled" THEN "CancelledError"
    ELSE IF t = "failed" THEN "Exception"
    ELSE None

\* `except Exception`: asyncio.CancelledError is a BaseException and is not
\* caught.
ExceptException(e) == e = "Exception"

\* The exception that leaves `try: await task / except Exception: pass`.
Escapes(t) ==
    IF AwaitRaises(t) # None /\ ~ExceptException(AwaitRaises(t))
    THEN AwaitRaises(t)
    ELSE None

\* A faulty cancel(): the task goes on running.
CancelIsIgnored(t) == t

\* task.cancel() on a task without handlers of its own.
Cancel(t) == IF Running(t) THEN "cancelled" ELSE t

\* ---------------------------------------------------------------- ws_chat
\* The first frame of the client: no text frame, a request that does not
\* parse, or a ChatRequest.  With a request the handler sends
\* orchestrator_start, creates the bridge, the cancel listener, the LLM
\* streamer and the stop.wait() task, and waits for the first of the last two.
ReceiveFirst(kind) ==
    /\ main_pc = "receive"
    /\ IF kind = "ok"
       THEN /\ client_out' = WsSendJson(client_out, Obj("orchestrator_start", FALSE, 0))
            /\ tts_task' = "connect"
            /\ cancel_task' = "run"
            /\ llm_task' = "run"
            /\ stop_task' = "wait"
            /\ main_pc' = "wait"
            /\ UNCHANGED client_closed
       ELSE /\ client_out' = IF kind = "bad"
                             THEN WsSendJson(client_out, Obj("orchestrator_error", FALSE, 0))
                             ELSE client_out
            /\ client_closed' = TRUE
            /\ main_pc' = "exit"
            /\ UNCHANGED <<tts_task, cancel_task, llm_task, stop_task>>
    /\ UNCHANGED <<main_exc, sender_task, stop, cancel_requested, tts_text_queue,
                   tts_sent, tts_inbox, tts_received, tts_seq, done_steps, budget>>
    /\ UNCHANGED <<gvars, xvars, zvars>>

\* asyncio.wait({llm_task, stop_task}, FIRST_COMPLETED) returns.  With stop
\* first and the streamer still running: llm_task.cancel() and `await
\* llm_task` inside `try/except Exception`; what escapes it unwinds the
\* handler into its finally, otherwise orchestrator_cancelled is sent and the
\* bridge is waited for.  Else llm_task.result(): an exception of the
\* streamer unwinds the handler, a result is reported with llm_done and the
\* bridge is waited for unless a cancel was requested.
MainWake ==
    /\ main_pc = "wait"
    /\ Terminal(llm_task) \/ stop_task = "done"
    /\ IF stop_task = "done" /\ ~Terminal(llm_task)
       THEN /\ llm_task' = Cancel(llm_task)
            /\ IF Escapes(Cancel(llm_task)) # None
               THEN /\ main_exc' = Escapes(Cancel(llm_task))
                    /\ main_pc' = "finally"
                    /\ UNCHANGED client_out
               ELSE /\ client_out' = WsSendJson(client_out, Obj("orchestrator_cancelled", FALSE, 0))
                    /\ main_pc' = "wait_tts"
                    /\ UNCHANGED main_exc
       ELSE /\ UNCHANGED llm_task
            /\ IF AwaitRaises(llm_task) # None
               THEN /\ main_exc' = AwaitRaises(llm_task)
                    /\ main_pc' = "finally"
                    /\ UNCHANGED client_out
               ELSE /\ client_out' = WsSendJson(client_out, Obj("llm_done", FALSE, 0))
                    /\ main_pc' = IF cancel_requested THEN "finally" ELSE "wait_tts"
                    /\ UNCHANGED main_exc
    /\ UNCHANGED <<tts_task, sender_task, cancel_task, stop_task, stop,
                   cancel_requested, tts_text_queue, client_closed, tts_sent,
                   tts_inbox, tts_received, tts_seq, done_steps, budget>>
    /\ UNCHANGED <<gvars, xvars, zvars>>

\* asyncio.wait_for(tts_task, timeout) in `try/except Exception`: the bridge
\* has ended.  After a timeout the TimeoutError is caught.
MainTtsDone ==
    /\ main_pc \in {"wait_tts", "timed_out"}
    /\ Terminal(tts_task)
    /\ main_exc' = IF main_pc = "wait_tts" THEN Escapes(tts_task) ELSE None
    /\ main_pc' = "finally"
    /\ UNCHANGED <<llm_task, tts_task, sender_task, cancel_task, stop_task, stop,
                   cancel_requested, tts_text_queue, client_out, client_closed,
                   tts_sent, tts_inbox, tts_received, tts_seq, done_steps, budget>>
    /\ UNCHANGED <<gvars, xvars, zvars>>

\* The timeout of wait_for expires: wait_for cancels the bridge and waits
\* until it has ended.
MainTimeout ==
    /\ main_pc = "wait_tts"
    /\ Running(tts_task)
    /\ main_pc' = "timed_out"
    /\ UNCHANGED <<main_exc, llm_task, tts_task, sender_task, cancel_task,
                   stop_task, stop, cancel_requested, tts_text_queue, client_out,
                   client_closed, tts_sent, tts_inbox, tts_received, tts_seq,
                   done_steps, budget>>
    /\ UNCHANGED <<gvars, xvars, zvars>>

\* ws_chat's finally, up to its first suspension: put_nowait(None) on the
\* text queue, then cancel_task.cancel() and `await cancel_task` inside
\* `try/except Exception`.  What escapes the await leaves the finally block
\* and, by `except asyncio.CancelledError: raise`, the handler.  Otherwise
\* tts_task.cancel() and the handler awaits the bridge.
MainFinally ==
    /\ main_pc = "finally"
    /\ tts_text_queue' = Append(tts_text_queue, None)
    /\ cancel_task' = Cancel(cancel_task)
    /\ IF Escapes(Cancel(cancel_task)) # None
       THEN /\ main_exc' = Escapes(Cancel(cancel_task))
            /\ main_pc' = "exit"
            /\ done_steps' = done_steps \cup {"sentinel", "cancel_task"}
       ELSE /\ main_pc' = "fin_await_tts"
            /\ done_steps' = done_steps \cup {"sentinel", "cancel_task"}
            /\ UNCHANGED main_exc
    /\ UNCHANGED <<llm_task, tts_task, sender_task, stop_task, stop,
                   cancel_requested, client_out, client_closed, tts_sent,
                   tts_inbox, tts_received, tts_seq, budget>>
    /\ UNCHANGED <<gvars, xvars, zvars>>

\* The rest of the finally, once the bridge has ended: `await tts_task`,
\* then stop_task.cancel() and `await stop_task`, both inside
\* `try/except Exception`, then ws.close().  An exception of the try block
\* that is an Exception is then reported by the outer handler, whose send on
\* the closed socket fails and is ignored.
MainAwaitTts ==
    /\ main_pc = "fin_await_tts"
    /\ Terminal(tts_task)
    /\ main_pc' = "exit"
    /\ IF Escapes(tts_task) # None
       THEN /\ main_exc' = Escapes(tts_task)
            /\ done_steps' = done_steps \cup {"tts_task"}
            /\ UNCHANGED <<stop_task, client_closed>>
       ELSE /\ stop_task' = Cancel(stop_task)
            /\ IF Escapes(Cancel(stop_task)) # None
               THEN /\ main_exc' = Escapes(Cancel(stop_task))
                    /\ done_steps' = done_steps \cup {"tts_task", "stop_task"}
                    /\ UNCHANGED client_closed
               ELSE /\ client_closed' = TRUE
                    /\ done_steps' = done_steps \cup {"tts_task", "stop_task", "ws_close"}
                    /\ UNCHANGED main_exc
    /\ UNCHANGED <<llm_task, tts_task, sender_task, cancel_task, stop,
                   cancel_requested, tts_text_queue, client_out, tts_sent,
                   tts_inbox, tts_received, tts_seq, budget>>
    /\ UNCHANGED <<gvars, xvars, zvars>>

\* ------------------------------------------------------- client_cancel_loop
\* The client sends {type: cancel}: both events are set and the listener
\* ends; stop.wait() returns.
ClientCancel ==
    /\ cancel_task = "run"
    /\ cancel_requested' = TRUE
    /\ stop' = TRUE
    /\ cancel_task' = "done"
    /\ stop_task' = IF stop_task = "wait" THEN "done" ELSE stop_task
    /\ UNCHANGED <<main_pc, main_exc, llm_task, tts_task, sender_task,
                   tts_text_queue, client_out, client_closed, tts_sent,
                   tts_inbox, tts_received, tts_seq, done_steps, budget>>
    /\ UNCHANGED <<gvars, xvars, zvars>>

\* --------------------------------------------------- _stream_sglang_deltas
\* One data line with content: llm_delta is sent to the client and, when the
\* flush rule says so, the buffer is put on the text queue.  The loop test
\* `while not stop.is_set()` comes after the line: with stop set the
\* streamer returns without a sentinel.
\* The number of text segments pushed so far: every segment is still on the
\* queue or was sent as a text_delta.
Pushed ==
    Len(SelectSeq(tts_text_queue, LAMBDA x : x # None))
    + Len(SelectSeq(tts_sent, LAMBDA f : f.type = "text_delta"))

LlmDelta(flush) ==
    /\ llm_task = "run"
    /\ budget > 0
    /\ budget' = budget - 1
    /\ client_out' = WsSendJson(client_out, Obj("llm_delta", FALSE, 0))
    /\ tts_text_queue' = IF flush THEN Append(tts_text_queue, SegNames[Pushed + 1])
                                  ELSE tts_text_queue
    /\ llm_task' = IF stop THEN "done" ELSE "run"
    /\ UNCHANGED <<main_pc, main_exc, tts_task, sender_task, cancel_task,
                   stop_task, stop, cancel_requested, client_closed, tts_sent,
                   tts_inbox, tts_received, tts_seq, done_steps>>
    /\ UNCHANGED <<gvars, xvars, zvars>>

\* The stream ends ([DONE] or end of body): without stop the sentinel is put
\* on the text queue.
LlmEnd ==
    /\ llm_task = "run"
    /\ llm_task' = "done"
    /\ tts_text_queue' = IF stop THEN tts_text_queue
                                 ELSE Append(tts_text_queue, None)
    /\ UNCHANGED <<main_pc, main_exc, tts_task, sender_task, cancel_task,
                   stop_task, stop, cancel_requested, client_out, client_closed,
                   tts_sent, tts_inbox, tts_received, tts_seq, done_steps, budget>>
    /\ UNCHANGED <<gvars, xvars, zvars>>

\* The request to the LLM fails (no API key, status other than 200, broken
\* connection): the streamer raises.
LlmFail ==
    /\ llm_task = "run"
    /\ llm_task' = "failed"
    /\ UNCHANGED <<main_pc, main_exc, tts_task, sender_task, cancel_task,
                   stop_task, stop, cancel_requested, tts_text_queue, client_out,
                   client_closed, tts_sent, tts_inbox, tts_received, tts_seq,
                   done_steps, budget>>
    /\ UNCHANGED <<gvars, xvars, zvars>>

\* ------------------------------------------------------------- _tts_bridge
\* A cancel() of the bridge task is pending: by ws_chat's finally, or by
\* wait_for after its timeout.
CancelPending ==
    main_pc \in {"fin_await_tts", "timed_out"} /\ Running(tts_task)

\* The sender sub-task was blocked in tts_text_queue.get() and an item has
\* been put: its wake-up is scheduled.
SenderWoken == sender_task = "get" /\ tts_text_queue # <<>>

\* The end of sender_loop, after its while loop: cancel when a cancel was
\* requested, text_end when no stop is set, else nothing.
SenderTail ==
    /\ sender_task' = "done"
    /\ IF cancel_requested
       THEN /\ tts_sent' = Append(tts_sent, Obj("cancel", FALSE, tts_seq))
            /\ tts_seq' = tts_seq + 1
       ELSE IF ~stop
       THEN /\ tts_sent' = Append(tts_sent, Obj("text_end", FALSE, tts_seq))
            /\ UNCHANGED tts_seq
       ELSE UNCHANGED <<tts_sent, tts_seq>>

\* A faulty sender: the text_delta is sent but seq is not advanced.
SenderTakeKeepsSeq ==
    /\ tts_text_queue' = Tail(tts_text_queue)
    /\ IF Head(tts_text_queue) = None
       THEN SenderTail
       ELSE /\ tts_sent' = Append(tts_sent, TextDelta(tts_seq, Head(tts_text_queue)))
            /\ tts_seq' = tts_seq
            /\ sender_task' = "start"

\* text = await tts_text_queue.get() returns an item: the sentinel ends the
\* loop, a text is sent as text_delta and the loop goes back to its top.
SenderTake ==
    /\ tts_text_queue' = Tail(tts_text_queue)
    /\ IF Head(tts_text_queue) = None
       THEN SenderTail
       ELSE /\ tts_sent' = Append(tts_sent, TextDelta(tts_seq, Head(tts_text_queue)))
            /\ tts_seq' = tts_seq + 1
            /\ sender_task' = "start"

\* sender_loop at the top of its while loop: `if stop.is_set(): break`, else
\* the next item of the text queue, for which it blocks when there is none.
SenderTop ==
    /\ sender_task \in {"created", "start"}
    /\ IF stop
       THEN SenderTail /\ UNCHANGED tts_text_queue
       ELSE IF tts_text_queue = <<>>
       THEN /\ sender_task' = "get"
            /\ UNCHANGED <<tts_sent, tts_seq, tts_text_queue>>
       ELSE SenderTake
    /\ UNCHANGED <<main_pc, main_exc, llm_task, tts_task, cancel_task, stop_task,
                   stop, cancel_requested, client_out, client_closed, tts_inbox,
                   tts_received, done_steps, budget>>
    /\ UNCHANGED <<gvars, xvars, zvars>>

\* sender_loop blocked in get() is handed an item; stop is not looked at
\* before the item is sent.
SenderWake ==
    /\ SenderWoken
    /\ SenderTake
    /\ UNCHANGED <<main_pc, main_exc, llm_task, tts_task, cancel_task, stop_task,
                   stop, cancel_requested, client_out, client_closed, tts_inbox,
                   tts_received, done_steps, budget>>
    /\ UNCHANGED <<gvars, xvars, zvars>>

\* client.ws_connect succeeds: start is sent and the sender sub-task created.
\* The bridge then suspends in `async for msg in tts_ws`, and the first step
\* of the new task is ahead of every wake-up of the bridge.
BridgeConnect ==
    /\ tts_task = "connect"
    /\ ~CancelPending
    /\ tts_sent' = Append(tts_sent, Obj("start", FALSE, 0))
    /\ sender_task' = "created"
    /\ tts_task' = "read"
    /\ UNCHANGED <<main_pc, main_exc, llm_task, cancel_task, stop_task, stop,
                   cancel_requested, tts_text_queue, client_out, client_closed,
                   tts_inbox, tts_received, tts_seq, done_steps, budget>>
    /\ UNCHANGED <<gvars, xvars, zvars>>

\* client.ws_connect raises: the bridge task ends with the exception.
BridgeConnectFail ==
    /\ tts_task = "connect"
    /\ ~CancelPending
    /\ tts_task' = "failed"
    /\ UNCHANGED <<main_pc, main_exc, llm_task, sender_task, cancel_task,
                   stop_task, stop, cancel_requested, tts_text_queue, client_out,
                   client_closed, tts_sent, tts_inbox, tts_received, tts_seq,
                   done_steps, budget>>
    /\ UNCHANGED <<gvars, xvars, zvars>>

\* The bridge's finally: sender_task.cancel() and `await sender_task` inside
\* `try/except Exception`; what escapes the await ends the bridge task.
BridgeEnd ==
    /\ sender_task' = Cancel(sender_task)
    /\ tts_task' = IF Escapes(Cancel(sender_task)) # None THEN "cancelled"
                                                        ELSE "done"

\* A faulty end test of the relay loop: only tts_end ends it.
RelayStopsOnTtsEnd(obj) == obj.type = "tts_end"

\* `if obj.get("type") in {"tts_end", "error"}: break`
RelayStops(obj) == obj.type \in {"tts_end", "error"}

\* One turn of `async for msg in tts_ws`: with stop set the loop breaks; a
\* frame that is no text is skipped; a text frame is parsed and sent to the
\* client, and a tts_end or error ends the loop.
BridgeRecv ==
    /\ tts_task = "read"
    /\ sender_task # "created"
    /\ tts_inbox # <<>>
    /\ ~CancelPending
    /\ tts_inbox' = Tail(tts_inbox)
    /\ LET msg == Head(tts_inbox) IN
       IF stop
       THEN /\ BridgeEnd
            /\ tts_received' = IF IsTextFrame(msg) THEN Append(tts_received, msg)
                                                   ELSE tts_received
            /\ UNCHANGED client_out
       ELSE IF ~IsTextFrame(msg)
       THEN UNCHANGED <<tts_task, sender_task, tts_received, client_out>>
       ELSE /\ client_out' = WsSendJson(client_out, JsonLoads(msg))
            /\ tts_received' = Append(tts_received, msg)
            /\ IF RelayStops(JsonLoads(msg))
               THEN BridgeEnd
               ELSE UNCHANGED <<tts_task, sender_task>>
    /\ UNCHANGED <<main_pc, main_exc, llm_task, cancel_task, stop_task, stop,
                   cancel_requested, tts_text_queue, client_closed, tts_sent,
                   tts_seq, done_steps, budget>>
    /\ UNCHANGED <<gvars, xvars, zvars>>

\* The pending cancel() reaches the bridge task: before the connection is up
\* the task just ends; in the read loop its finally cancels the sender.  A
\* sender whose wake-up was scheduled before the cancel runs first.
BridgeCancelled ==
    /\ CancelPending
    /\ sender_task # "created"
    /\ ~SenderWoken
    /\ tts_task' = "cancelled"
    /\ sender_task' = Cancel(sender_task)
    /\ UNCHANGED <<main_pc, main_exc, llm_task, cancel_task, stop_task, stop,
                   cancel_requested, tts_text_queue, client_out, client_closed,
                   tts_sent, tts_inbox, tts_received, tts_seq, done_steps, budget>>
    /\ UNCHANGED <<gvars, xvars, zvars>>

\* The TTS gateway sends a frame.  tts_end{cancelled: true} is its answer to
\* a cancel frame.
TtsEmit(f) ==
    /\ tts_task = "read"
    /\ budget > 0
    /\ f.obj.cancelled => \E i \in DOMAIN tts_sent : tts_sent[i].type = "cancel"
    /\ budget' = budget - 1
    /\ tts_inbox' = Append(tts_inbox, f)
    /\ UNCHANGED <<main_pc, main_exc, llm_task, tts_task, sender_task,
                   cancel_task, stop_task, stop, cancel_requested, tts_text_queue,
                   client_out, client_closed, tts_sent, tts_received, tts_seq,
                   done_steps>>
    /\ UNCHANGED <<gvars, xvars, zvars>>

NextOrch ==
    \/ \E kind \in {"ok", "bad", "nontext"} : ReceiveFirst(kind)
    \/ MainWake
    \/ MainTtsDone
    \/ MainTimeout
    \/ MainFinally
    \/ MainAwaitTts
    \/ ClientCancel
    \/ \E flush \in BOOLEAN : LlmDelta(flush)
    \/ LlmEnd
    \/ LlmFail
    \/ SenderTop
    \/ SenderWake
    \/ BridgeConnect
    \/ BridgeConnectFail
    \/ BridgeRecv
    \/ BridgeCancelled
    \/ \E f \in TtsFrames : TtsEmit(f)

SpecOrch == Init /\ [][NextOrch]_vars

\* ================================================== synthesize_pcm16_stream
\* PiperTtsEngine.synthesize_pcm16_stream of tts_engines/piper.py: the PCM of
\* one text is cut into chunks of chunk_bytes bytes.
MaxPcmLen == 8
MaxChunkBytes == 5
MaxChannels == 3

\* PCM of n bytes; a byte is told from the others by its position.
Pcm(n) == [i \in 1..n |-> i]

\* b[i : j] of Python, for 0 <= i <= j.
Slice(b, i, j) ==
    LET hi == IF j < Len(b) THEN j ELSE Len(b) IN
    IF i >= hi THEN <<>> ELSE SubSeq(b, i + 1, hi)

\* A call of synthesize_pcm16_stream: synthesize_pcm16 has returned pcm.
InitPiper ==
    /\ GatewayInit(MaxFrames)
    /\ OrchInit
    /\ ZIdle
    /\ LlmIdle
    /\ AuthIdle
    /\ WavIdle
    /\ pcm \in {Pcm(n) : n \in 0..MaxPcmLen}
    /\ chunk_bytes \in 1..MaxChunkBytes
    /\ channels \in 1..MaxChannels
    /\ range_i = 0
    /\ yielded = <<>>

\* One turn of `for i in range(0, len(pcm), chunk_bytes): yield pcm[i : i +
\* chunk_bytes]`.
PiperYield ==
    /\ range_i < Len(pcm)
    /\ yielded' = Append(yielded, Slice(pcm, range_i, range_i + chunk_bytes))
    /\ range_i' = range_i + chunk_bytes
    /\ UNCHANGED <<pcm, chunk_bytes, channels>>
    /\ UNCHANGED <<gvars, ovars, lvars, avars, wvars, zvars>>

NextPiper == PiperYield

SpecPiper == InitPiper /\ [][NextPiper]_vars

\* ================================================================ start_ack
\* build_wav_header and the start_ack payload of the gateway's start branch.
\* A byte is a number in 0..255, a bytes value a sequence of them.
SampleRates == {8000, 11025, 16000, 22050, 24000, 32000, 44100, 48000}
ChannelCounts == {1, 2, 6, 65536}
AudioFormats == {"pcm16_raw", "pcm16_wav"}

\* int(x).to_bytes(n, "little", signed=False), for an x that fits.
RECURSIVE ToBytes(_, _)
ToBytes(x, n) ==
    IF n = 0 THEN <<>> ELSE <<x % 256>> \o ToBytes(x \div 256, n - 1)

\* to_bytes raises OverflowError unless 0 <= x < 256^n.  Every number of the
\* model is below 2^31 and fits 4 bytes.
Fits(x, n) == x >= 0 /\ (n < 4 => x < 256^n)

\* The 44 bytes that build_wav_header joins.
WavHeader(sample_rate, nch, byte_rate, block_align) ==
    <<82, 73, 70, 70>> \o ToBytes(36, 4) \o <<87, 65, 86, 69>>
    \o <<102, 109, 116, 32>> \o ToBytes(16, 4) \o ToBytes(1, 2)
    \o ToBytes(nch, 2) \o ToBytes(sample_rate, 4) \o ToBytes(byte_rate, 4)
    \o ToBytes(block_align, 2) \o ToBytes(16, 2)
    \o <<100, 97, 116, 97>> \o ToBytes(0, 4)

\* A faulty header: the byte rate of one channel.
BuildWavHeaderMonoRate(sample_rate, nch) ==
    WavHeader(sample_rate, nch, sample_rate * (16 \div 8), nch * (16 \div 8))

\* build_wav_header(sample_rate=..., channels=...)
BuildWavHeader(sample_rate, nch) ==
    WavHeader(sample_rate, nch, sample_rate * nch * (16 \div 8), nch * (16 \div 8))

\* build_wav_header raises: u16(channels) or u16(block_align) does not fit.
WavHeaderRaises(sample_rate, nch) ==
    ~(Fits(nch, 2) /\ Fits(sample_rate, 4) /\ Fits(nch * (16 \div 8), 2))

\* base64.b64encode(b).decode("ascii"): a character is its index in the
\* base64 alphabet, 64 is the padding "=".
RECURSIVE B64Encode(_)
B64Encode(b) ==
    IF b = <<>> THEN <<>>
    ELSE IF Len(b) = 1
    THEN <<b[1] \div 4, (b[1] % 4) * 16, 64, 64>>
    ELSE IF Len(b) = 2
    THEN <<b[1] \div 4, (b[1] % 4) * 16 + b[2] \div 16, (b[2] % 16) * 4, 64>>
    ELSE <<b[1] \div 4, (b[1] % 4) * 16 + b[2] \div 16,
           (b[2] % 16) * 4 + b[3] \div 64, b[3] % 64>>
         \o B64Encode(SubSeq(b, 4, Len(b)))

\* The start_ack dict: wav_header_base64 is a key of it for pcm16_wav only.
StartAckPayload(spec) ==
    LET ack == [type |-> "start_ack", audio_format |-> spec.audio_format,
                sample_rate |-> spec.sample_rate, channels |-> spec.channels]
        hdr == BuildWavHeader(spec.sample_rate, spec.channels)
    IN  IF spec.audio_format = "pcm16_wav"
        THEN [k \in DOMAIN ack \cup {"wav_header_base64"} |->
                 IF k = "wav_header_base64" THEN B64Encode(hdr) ELSE ack[k]]
        ELSE ack

\* A start for a session with some audio_spec.
InitWav ==
    /\ GatewayInit(MaxFrames)
    /\ OrchInit
    /\ ZIdle
    /\ LlmIdle
    /\ AuthIdle
    /\ PiperIdle
    /\ audio_spec \in [audio_format : AudioFormats, sample_rate : SampleRates,
                        channels : ChannelCounts]
    /\ start_ack = [type |-> "none"]

\* The start branch from `start_ack = {...}` to send_json_locked(start_ack);
\* an exception of build_wav_header is answered by the handler's
\* `except Exception` with an error frame.
BuildStartAck ==
    /\ start_ack.type = "none"
    /\ start_ack' =
          IF /\ audio_spec.audio_format = "pcm16_wav"
             /\ WavHeaderRaises(audio_spec.sample_rate, audio_spec.channels)
          THEN [type |-> "error", code |-> "internal_error"]
          ELSE StartAckPayload(audio_spec)
    /\ UNCHANGED audio_spec
    /\ UNCHANGED <<gvars, ovars, lvars, avars, pvars, zvars>>

NextWav == BuildStartAck

SpecWav == InitWav /\ [][NextWav]_vars

\* ================================================================ /chat auth
\* The admission test of ws_chat.  A string is a sequence of symbols: " " is
\* white space, "k" and "x" are characters of keys, and a scheme word of the
\* Authorization header ("Bearer", "bearer", "BEARER", "Basic") is one symbol.
Keys == {<<>>, <<" ">>, <<"k">>, <<"k", " ">>}
Queries == {<<>>, <<"k">>, <<"x">>, <<"k", " ">>, <<" ", "k">>}
Headers ==
    {<<>>, <<"k">>, <<"Bearer">>, <<"Bearer", " ", "k">>, <<"bearer", " ", "k">>,
     <<"BEARER", " ", "x">>, <<"Basic", " ", "k">>,
     <<"Bearer", " ", " ", "k", " ">>, <<" ", "Bearer", " ", "k">>}

\* str.strip()
RECURSIVE Strip(_)
Strip(str) ==
    IF str = <<>> THEN <<>>
    ELSE IF Head(str) = " " THEN Strip(Tail(str))
    ELSE IF str[Len(str)] = " " THEN Strip(SubSeq(str, 1, Len(str) - 1))
    ELSE str

\* str.split(" ", 1)
SplitOnce(str) ==
    LET blanks == {i \in DOMAIN str : str[i] = " "} IN
    IF blanks = {} THEN <<str>>
    ELSE LET i == CHOOSE i \in blanks : \A j \in blanks : i <= j IN
         <<SubSeq(str, 1, i - 1), SubSeq(str, i + 1, Len(str))>>

\* str.lower()
Lower(str) ==
    [i \in DOMAIN str |-> IF str[i] \in {"Bearer", "BEARER"} THEN "bearer"
                                                             ELSE str[i]]

\* A faulty header test: the scheme word is not looked at.
BearerOfAnyScheme(auth) ==
    IF auth = <<>> THEN <<>>
    ELSE LET parts == SplitOnce(Strip(auth)) IN
         IF Len(parts) = 2 THEN Strip(parts[2]) ELSE <<>>

\* The bearer token that ws_chat takes from the Authorization header.
Bearer(auth) ==
    IF auth = <<>> THEN <<>>
    ELSE LET parts == SplitOnce(Strip(auth)) IN
         IF Len(parts) = 2 /\ Lower(parts[1]) = <<"bearer">>
         THEN Strip(parts[2])
         ELSE <<>>

\* ws_chat does not raise HTTPUnauthorized.
Admitted ==
    LET expected == Strip(orch_api_key)
        got == Strip(query_api_key)
    IN  expected # <<>> => ~(got # expected /\ Bearer(authorization) # expected)

\* A request arrives at /chat.
InitAuth ==
    /\ GatewayInit(MaxFrames)
    /\ OrchInit
    /\ ZIdle
    /\ LlmIdle
    /\ WavIdle
    /\ PiperIdle
    /\ orch_api_key \in Keys
    /\ query_api_key \in Queries
    /\ authorization \in Headers
    /\ auth_result = "pending"

\* The head of ws_chat: raise web.HTTPUnauthorized, or go on to ws.prepare.
Authorize ==
    /\ auth_result = "pending"
    /\ auth_result' = IF Admitted THEN "upgraded" ELSE "401"
    /\ UNCHANGED <<orch_api_key, query_api_key, authorization>>
    /\ UNCHANGED <<gvars, ovars, lvars, wvars, pvars, zvars>>

\* After ws.prepare the handler receives the first frame.
NextAuth ==
    \/ Authorize
    \/ auth_result = "upgraded" /\ \E kind \in {"ok", "bad", "nontext"} : ReceiveFirst(kind)

SpecAuth == InitAuth /\ [][NextAuth]_vars

\* ==================================================== _stream_sglang_deltas
\* The LLM streamer line by line: the flush rule, the tool-call accumulator
\* and the parse errors.  (In the /chat model above the streamer is the three
\* steps LlmDelta, LlmEnd and LlmFail.)  A text is a sequence of characters.
MaxLines == 3
MaxToolLines == 2
MaxFlushMinChars == 3

\* PUNCTUATION, its ASCII part.
PUNCTUATION == {",", ".", "!", "?", ";", ":", "\n"}

\* delta["content"] of a line: nothing, or a token of letters and punctuation.
Contents ==
    {<<>>, <<"a">>, <<",">>, <<"a", "a">>, <<"a", ",">>, <<",", "a">>}

\* One entry of delta["tool_calls"]; a key that is absent or empty is "" or
\* <<>>, has_index tells whether "index" is an int.
ToolCall(has_index, index, id, name, arguments) ==
    [has_index |-> has_index, index |-> index, id |-> id, name |-> name,
     arguments |-> arguments]

ToolCalls ==
    {ToolCall(TRUE, i, id, nm, ar) :
        i \in {0, 1}, id \in {"", "A", "B"}, nm \in {"", "f"},
        ar \in {<<>>, <<"x">>, <<"y">>}}
    \cup {ToolCall(FALSE, 0, "", "", ar) : ar \in {<<"x">>, <<"y">>}}

\* delta["tool_calls"]: lists of one entry, and of two.
ToolCallLists ==
    {<<t>> : t \in ToolCalls}
    \cup {<<t, u>> : t, u \in {ToolCall(FALSE, 0, "", "", <<"x">>),
                                ToolCall(FALSE, 0, "A", "f", <<"y">>),
                                ToolCall(TRUE, 0, "", "", <<"y">>)}}

\* An item of tts_text_queue: a text, or the sentinel None.
Segment(text) == [none |-> FALSE, text |-> text]
Sentinel == [none |-> TRUE, text |-> <<>>]

\* A faulty accumulator: the entry is always filed under its array position.
ApplyToolCallByPosition(acc, tc, i) ==
    LET idx == i
        cur == IF idx \in DOMAIN acc THEN acc[idx]
               ELSE [index |-> idx, tool_call_id |-> "", function_name |-> "",
                     arguments |-> <<>>]
        new == [cur EXCEPT
                  !.tool_call_id = IF tc.id # "" THEN tc.id ELSE @,
                  !.function_name = IF tc.name # "" THEN tc.name ELSE @,
                  !.arguments = @ \o tc.arguments]
    IN  [k \in DOMAIN acc \cup {idx} |-> IF k = idx THEN new ELSE acc[k]]

\* The body of the loop of _apply_tool_calls_delta for entry tc at array
\* position i.
ApplyToolCall(acc, tc, i) ==
    LET idx == IF tc.has_index THEN tc.index ELSE i
        cur == IF idx \in DOMAIN acc THEN acc[idx]
               ELSE [index |-> idx, tool_call_id |-> "", function_name |-> "",
                     arguments |-> <<>>]
        new == [cur EXCEPT
                  !.tool_call_id = IF tc.id # "" THEN tc.id ELSE @,
                  !.function_name = IF tc.name # "" THEN tc.name ELSE @,
                  !.arguments = @ \o tc.arguments]
    IN  [k \in DOMAIN acc \cup {idx} |-> IF k = idx THEN new ELSE acc[k]]

\* _apply_tool_calls_delta(acc, tool_calls), from array position i on.
RECURSIVE ApplyToolCallsDelta(_, _, _)
ApplyToolCallsDelta(acc, tool_calls, i) ==
    IF tool_calls = <<>> THEN acc
    ELSE ApplyToolCallsDelta(ApplyToolCall(acc, Head(tool_calls), i),
                             Tail(tool_calls), i + 1)

\* [tool_acc[k].to_dict() for k in sorted(tool_acc)]
Snapshot(acc) ==
    LET key(n) == CHOOSE k \in DOMAIN acc :
                     Cardinality({j \in DOMAIN acc : j < k}) = n - 1
    IN  [n \in 1..Cardinality(DOMAIN acc) |->
            [index |-> acc[key(n)].index, id |-> acc[key(n)].tool_call_id,
             name |-> acc[key(n)].function_name,
             arguments |-> acc[key(n)].arguments]]

\* A faulty flush test: the length only.
ShouldFlushOnLength(buf) == Len(buf) >= tts_flush_min_chars

\* The flush test on tts_buffer after the content was appended.
ShouldFlush(buf) ==
    \/ Len(buf) >= tts_flush_min_chars
    \/ tts_flush_on_punct /\ buf # <<>> /\ buf[Len(buf)] \in PUNCTUATION

\* The streamer after its request was answered with status 200, with n lines
\* ahead and some setting of the two flush variables.
StreamStart(n) ==
    /\ full_text = <<>>
    /\ tts_buffer = <<>>
    /\ tool_acc = <<>>
    /\ text_queue = <<>>
    /\ llm_sent = <<>>
    /\ llm_pc = "read"
    /\ llm_res = <<>>
    /\ stop_set = FALSE
    /\ tool_lines = <<>>
    /\ lines_left = n

InitStream ==
    /\ GatewayInit(MaxFrames)
    /\ OrchInit
    /\ ZIdle
    /\ AuthIdle
    /\ WavIdle
    /\ PiperIdle
    /\ StreamStart(MaxLines)
    /\ tts_flush_min_chars \in 0..MaxFlushMinChars
    /\ tts_flush_on_punct \in BOOLEAN

InitTools ==
    /\ GatewayInit(MaxFrames)
    /\ OrchInit
    /\ ZIdle
    /\ AuthIdle
    /\ WavIdle
    /\ PiperIdle
    /\ StreamStart(MaxToolLines)
    /\ tts_flush_min_chars = 12
    /\ tts_flush_on_punct = TRUE

\* The value the streamer returns.
Result(text, acc) == [full_text |-> text, tool_calls |-> Snapshot(acc)]

\* Back at `while not stop.is_set()`: without stop the next readline; with
\* stop the loop ends, the block after it is skipped and the streamer returns.
LoopTop(text, acc) ==
    IF stop_set
    THEN llm_pc' = "done" /\ llm_res' = Result(text, acc)
    ELSE llm_pc' = "read" /\ UNCHANGED llm_res

\* A data line whose choices[0].delta is an object with these tool_calls and
\* this content.
StreamLine(content, tool_calls) ==
    /\ llm_pc = "read"
    /\ lines_left > 0
    /\ lines_left' = lines_left - 1
    /\ LET acc == IF tool_calls # <<>>
                  THEN ApplyToolCallsDelta(tool_acc, tool_calls, 0)
                  ELSE tool_acc
           sent1 == IF tool_calls # <<>>
                    THEN Append(llm_sent, [type |-> "tool_calls_delta",
                                           tool_calls |-> Snapshot(acc)])
                    ELSE llm_sent
           buf == tts_buffer \o content
       IN  /\ tool_acc' = acc
           /\ tool_lines' = IF tool_calls # <<>> THEN Append(tool_lines, tool_calls)
                                                  ELSE tool_lines
           /\ IF content # <<>>
              THEN /\ full_text' = full_text \o content
                   /\ llm_sent' = Append(sent1, [type |-> "llm_delta",
                                                 delta |-> content])
                   /\ IF ShouldFlush(buf)
                      THEN /\ text_queue' = Append(text_queue, Segment(buf))
                           /\ tts_buffer' = <<>>
                      ELSE /\ tts_buffer' = buf
                           /\ UNCHANGED text_queue
              ELSE /\ llm_sent' = sent1
                   /\ UNCHANGED <<full_text, tts_buffer, text_queue>>
           /\ LoopTop(full_text \o content, acc)
    /\ UNCHANGED <<stop_set, tts_flush_min_chars, tts_flush_on_punct>>
    /\ UNCHANGED <<gvars, ovars, avars, wvars, pvars, zvars>>

\* A faulty parse error: the buffered text is dropped with the line.
StreamBadLineDropsBuffer ==
    /\ llm_pc = "read"
    /\ lines_left > 0
    /\ lines_left' = lines_left - 1
    /\ llm_sent' = Append(llm_sent, [type |-> "orchestrator_error",
                                     code |-> "llm_parse_error"])
    /\ tts_buffer' = <<>>
    /\ LoopTop(full_text, tool_acc)
    /\ UNCHANGED <<full_text, tool_acc, text_queue, stop_set,
                   tts_flush_min_chars, tts_flush_on_punct, tool_lines>>
    /\ UNCHANGED <<gvars, ovars, avars, wvars, pvars, zvars>>

\* A data line for which json.loads(s[6:])["choices"][0]["delta"] raises:
\* orchestrator_error llm_parse_error is sent and the loop continues.
StreamBadLine ==
    /\ llm_pc = "read"
    /\ lines_left > 0
    /\ lines_left' = lines_left - 1
    /\ llm_sent' = Append(llm_sent, [type |-> "orchestrator_error",
                                     code |-> "llm_parse_error"])
    /\ LoopTop(full_text, tool_acc)
    /\ UNCHANGED <<full_text, tts_buffer, tool_acc, text_queue, stop_set,
                   tts_flush_min_chars, tts_flush_on_punct, tool_lines>>
    /\ UNCHANGED <<gvars, ovars, avars, wvars, pvars, zvars>>

\* A data line whose delta is no object (null, a string): delta.get raises
\* outside the try and the streamer ends with the exception.
StreamNotObject ==
    /\ llm_pc = "read"
    /\ lines_left > 0
    /\ lines_left' = lines_left - 1
    /\ llm_pc' = "failed"
    /\ UNCHANGED <<full_text, tts_buffer, tool_acc, text_queue, llm_sent,
                   llm_res, stop_set, tts_flush_min_chars, tts_flush_on_punct,
                   tool_lines>>
    /\ UNCHANGED <<gvars, ovars, avars, wvars, pvars, zvars>>

\* A faulty end of stream: the sentinel is put, the rest of the buffer is not.
StreamEndDropsRest ==
    /\ llm_pc = "read"
    /\ text_queue' = IF stop_set THEN text_queue ELSE Append(text_queue, Sentinel)
    /\ llm_pc' = "done"
    /\ llm_res' = Result(full_text, tool_acc)
    /\ UNCHANGED <<full_text, tts_buffer, tool_acc, llm_sent, stop_set,
                   tts_flush_min_chars, tts_flush_on_punct, tool_lines, lines_left>>
    /\ UNCHANGED <<gvars, ovars, avars, wvars, pvars, zvars>>

\* "data: [DONE]" or the end of the body: the loop breaks; without stop the
\* rest of the buffer is put on the queue, then the sentinel; the streamer
\* returns.
StreamEnd ==
    /\ llm_pc = "read"
    /\ text_queue' =
          IF stop_set THEN text_queue
          ELSE IF tts_buffer # <<>>
          THEN text_queue \o <<Segment(tts_buffer), Sentinel>>
          ELSE Append(text_queue, Sentinel)
    /\ llm_pc' = "done"
    /\ llm_res' = Result(full_text, tool_acc)
    /\ UNCHANGED <<full_text, tts_buffer, tool_acc, llm_sent, stop_set,
                   tts_flush_min_chars, tts_flush_on_punct, tool_lines, lines_left>>
    /\ UNCHANGED <<gvars, ovars, avars, wvars, pvars, zvars>>

\* stop.set() by the cancel listener while the streamer waits in readline.
StopSet ==
    /\ llm_pc = "read"
    /\ ~stop_set
    /\ stop_set' = TRUE
    /\ UNCHANGED <<full_text, tts_buffer, tool_acc, text_queue, llm_sent, llm_pc,
                   llm_res, tts_flush_min_chars, tts_flush_on_punct, tool_lines,
                   lines_left>>
    /\ UNCHANGED <<gvars, ovars, avars, wvars, pvars, zvars>>

\* llm_task.cancel() by ws_chat, which stop has woken, reaches the streamer
\* in readline.
StreamCancelled ==
    /\ llm_pc = "read"
    /\ stop_set
    /\ llm_pc' = "cancelled"
    /\ UNCHANGED <<full_text, tts_buffer, tool_acc, text_queue, llm_sent,
                   llm_res, stop_set, tts_flush_min_chars, tts_flush_on_punct,
                   tool_lines, lines_left>>
    /\ UNCHANGED <<gvars, ovars, avars, wvars, pvars, zvars>>

NextStream ==
    \/ \E content \in Contents,
          tool_calls \in {<<>>, <<ToolCall(FALSE, 0, "A", "f", <<"x">>)>>} :
          StreamLine(content, tool_calls)
    \/ StreamBadLine
    \/ StreamNotObject
    \/ StreamEnd
    \/ StopSet
    \/ StreamCancelled

SpecStream == InitStream /\ [][NextStream]_vars

NextTools ==
    \/ \E tool_calls \in ToolCallLists : StreamLine(<<>>, tool_calls)
    \/ StreamEnd

SpecTools == InitTools /\ [][NextTools]_vars

\* ============================================================ Metrics
\* The three places of the gateway that send an error frame, and what each
\* does to Metrics: fail(), the writer for an error taken from send_queue,
\* and the resume branch's resume_not_available.
MaxErrorEvents == 4

InitMetrics ==
    /\ GatewayInit(MaxFrames)
    /\ OrchInit
    /\ LlmIdle
    /\ AuthIdle
    /\ WavIdle
    /\ PiperIdle
    /\ SagaIdle
    /\ errors_total_by_code = [k \in ErrorCodes |-> 0]
    /\ backpressure_total = 0
    /\ errors_sent = [k \in ErrorCodes |-> 0]
    /\ error_events = MaxErrorEvents

\* Metrics.inc_error(code)
IncError(code) ==
    /\ errors_total_by_code' = [errors_total_by_code EXCEPT ![code] = @ + 1]
    /\ backpressure_total' = IF code = "backpressure" THEN backpressure_total + 1
                                                      ELSE backpressure_total

\* send_json_locked(payload) of an error frame: written, or send_str raises
\* on a socket that is closed.
SendError(code, written) ==
    errors_sent' = IF written THEN [errors_sent EXCEPT ![code] = @ + 1]
                              ELSE errors_sent

\* fail(code, message): inc_error, then the frame is sent.
FailCounts(code, written) ==
    /\ error_events > 0
    /\ error_events' = error_events - 1
    /\ IncError(code)
    /\ SendError(code, written)
    /\ UNCHANGED <<gvars, ovars, xvars, svars>>

\* sender_loop for a message of type error taken from send_queue: inc_error
\* for its code, then the frame is sent.
WriterCounts(code, written) ==
    /\ error_events > 0
    /\ error_events' = error_events - 1
    /\ IncError(code)
    /\ SendError(code, written)
    /\ UNCHANGED <<gvars, ovars, xvars, svars>>

\* The resume branch with resent == 0: the error frame is sent by
\* send_json_locked; Metrics is not touched.
ResumeMissCounts(written) ==
    /\ error_events > 0
    /\ error_events' = error_events - 1
    /\ SendError("resume_not_available", written)
    /\ UNCHANGED <<errors_total_by_code, backpressure_total>>
    /\ UNCHANGED <<gvars, ovars, xvars, svars>>

NextMetrics ==
    \/ \E code \in {"bad_request", "internal_error"}, written \in BOOLEAN :
          FailCounts(code, written)
    \/ \E code \in {"backpressure", "internal_error"}, written \in BOOLEAN :
          WriterCounts(code, written)
    \/ \E written \in BOOLEAN : ResumeMissCounts(written)

SpecMetrics == InitMetrics /\ [][NextMetrics]_vars

\* =========================================================== Registry
\* ws_run of the SAGA server, as far as app.state.controllers is concerned.
\* `data.get("run_id") or None`: an absent or empty run_id is None.
RunIdOf(given) == IF given = "" THEN None ELSE given

RunIdsGiven == RunIds \cup {""}

InitRegistry ==
    /\ GatewayInit(MaxFrames)
    /\ OrchInit
    /\ LlmIdle
    /\ AuthIdle
    /\ WavIdle
    /\ PiperIdle
    /\ ZIdle

\* ws.accept(); controller = RunController(); run_id = None
WsAccept(c) ==
    /\ run_pc[c] = "closed"
    /\ run_pc' = [run_pc EXCEPT ![c] = "accepted"]
    /\ run_id' = [run_id EXCEPT ![c] = None]
    /\ UNCHANGED controllers
    /\ UNCHANGED <<gvars, ovars, xvars, mvars, tvars, hvars>>

\* `if run_id: controllers[run_id] = controller`
Register(registry, c, rid) ==
    IF rid # None THEN [registry EXCEPT ![rid] = c] ELSE registry

\* The first message of the connection: run_id is read from it, the
\* controller is stored under it and the run starts.
WsFirstMessage(c, given) ==
    /\ run_pc[c] = "accepted"
    /\ run_id' = [run_id EXCEPT ![c] = RunIdOf(given)]
    /\ controllers' = Register(controllers, c, RunIdOf(given))
    /\ run_pc' = [run_pc EXCEPT ![c] = "running"]
    /\ UNCHANGED <<gvars, ovars, xvars, mvars, tvars, hvars>>

\* `if run_id and run_id in controllers: del controllers[run_id]`
Unregister(registry, rid) ==
    IF rid # None /\ registry[rid] # 0 THEN [registry EXCEPT ![rid] = 0]
                                        ELSE registry

\* receive_json raises before run_id is assigned (the client left or sent
\* no JSON): the except clause, then finally with run_id None.
WsFirstMessageFails(c) ==
    /\ run_pc[c] = "accepted"
    /\ controllers' = Unregister(controllers, run_id[c])
    /\ run_pc' = [run_pc EXCEPT ![c] = "finished"]
    /\ UNCHANGED run_id
    /\ UNCHANGED <<gvars, ovars, xvars, mvars, tvars, hvars>>

\* The run ends (finished, stopped or raised): the finally clause.
WsTeardown(c) ==
    /\ run_pc[c] = "running"
    /\ controllers' = Unregister(controllers, run_id[c])
    /\ run_pc' = [run_pc EXCEPT ![c] = "finished"]
    /\ UNCHANGED run_id
    /\ UNCHANGED <<gvars, ovars, xvars, mvars, tvars, hvars>>

NextRegistry ==
    \/ \E c \in RunConns : WsAccept(c)
    \/ \E c \in RunConns, given \in RunIdsGiven : WsFirstMessage(c, given)
    \/ \E c \in RunConns : WsFirstMessageFails(c)
    \/ \E c \in RunConns : WsTeardown(c)

SpecRegistry == InitRegistry /\ [][NextRegistry]_vars

\* ============================================================= Review
\* ws_run waiting for the answer to a HumanReviewRequest while the task of
\* _handle_control_messages reads the same WebSocket.  A message of the
\* client goes to whichever receive_json is served.
MaxClientMessages == 3
ClientMessages == {"approve", "stop", "cancel", "pause", "resume"}

\* need_review has been sent; controller.start() and create_task are done.
InitReview ==
    /\ GatewayInit(MaxFrames)
    /\ OrchInit
    /\ LlmIdle
    /\ AuthIdle
    /\ WavIdle
    /\ PiperIdle
    /\ MetricsIdle
    /\ RegistryIdle
    /\ OuterLoopIdle
    /\ review_pc = "top"
    /\ control_pc = "receive"
    /\ run_state = "running"
    /\ stop_requested = FALSE
    /\ pause_event = TRUE
    /\ socket_in = <<>>
    /\ client_left = MaxClientMessages

\* RunController.pause
ControllerPause ==
    /\ run_state' = IF run_state = "running" THEN "paused" ELSE run_state
    /\ pause_event' = IF run_state = "running" THEN FALSE ELSE pause_event
    /\ UNCHANGED stop_requested

\* RunController.resume
ControllerResume ==
    /\ run_state' = IF run_state = "paused" THEN "running" ELSE run_state
    /\ pause_event' = IF run_state = "paused" THEN TRUE ELSE pause_event
    /\ UNCHANGED stop_requested

\* RunController.stop
ControllerStop ==
    /\ stop_requested' = TRUE
    /\ run_state' = "stopping"
    /\ pause_event' = TRUE

\* The client sends a message.
ClientSends(m) ==
    /\ client_left > 0
    /\ client_left' = client_left - 1
    /\ socket_in' = Append(socket_in, m)
    /\ UNCHANGED <<review_pc, control_pc, run_state, stop_requested, pause_event>>
    /\ UNCHANGED <<gvars, ovars, xvars, mvars, rvars, tvars>>

\* The top of the review loop: should_stop() breaks, and the next event of
\* the run then sends run_stopped and cancels the control task; otherwise
\* wait_if_paused returns when the pause event is set and receive_json is
\* awaited.  A pause that outlasts the 0.5 s comes back here.
ReviewLoopTop ==
    /\ review_pc = "top"
    /\ stop_requested \/ pause_event
    /\ review_pc' = IF stop_requested THEN "stopped" ELSE "receive"
    /\ control_pc' = IF stop_requested THEN "ended" ELSE control_pc
    /\ UNCHANGED <<run_state, stop_requested, pause_event, socket_in, client_left>>
    /\ UNCHANGED <<gvars, ovars, xvars, mvars, rvars, tvars>>

\* receive_json of the review loop returns a message: approve breaks, cancel
\* and stop call controller.stop() and break, anything else is passed over.
ReviewReceives ==
    /\ review_pc = "receive"
    /\ socket_in # <<>>
    /\ socket_in' = Tail(socket_in)
    /\ LET m == Head(socket_in) IN
         /\ review_pc' = IF m = "approve" THEN "proceeded"
                          ELSE IF m \in {"cancel", "stop"} THEN "stopped"
                          ELSE "top"
         /\ control_pc' = IF m \in {"cancel", "stop"} THEN "ended" ELSE control_pc
         /\ IF m \in {"cancel", "stop"}
               THEN ControllerStop
               ELSE UNCHANGED <<run_state, stop_requested, pause_event>>
    /\ UNCHANGED client_left
    /\ UNCHANGED <<gvars, ovars, xvars, mvars, rvars, tvars>>

\* receive_json of the review loop times out.
ReviewTimeout ==
    /\ review_pc = "receive"
    /\ socket_in = <<>>
    /\ review_pc' = "top"
    /\ UNCHANGED <<control_pc, run_state, stop_requested, pause_event, socket_in,
                   client_left>>
    /\ UNCHANGED <<gvars, ovars, xvars, mvars, rvars, tvars>>

\* receive_json of _handle_control_messages returns a message: pause, resume
\* and stop act on the controller, stop also ends the task; a message of any
\* other type has no branch.
ControlReceives ==
    /\ control_pc = "receive"
    /\ socket_in # <<>>
    /\ socket_in' = Tail(socket_in)
    /\ LET m == Head(socket_in) IN
         /\ control_pc' = IF m = "stop" THEN "ended" ELSE control_pc
         /\ CASE m = "pause" -> ControllerPause
              [] m = "resume" -> ControllerResume
              [] m = "stop" -> ControllerStop
              [] OTHER -> UNCHANGED <<run_state, stop_requested, pause_event>>
    /\ UNCHANGED <<review_pc, client_left>>
    /\ UNCHANGED <<gvars, ovars, xvars, mvars, rvars, tvars>>

\* The run past its review: the next event finds should_stop(), sends
\* run_stopped and leaves the loop; control_task.cancel().
RunSeesStop ==
    /\ review_pc = "proceeded"
    /\ stop_requested
    /\ review_pc' = "stopped"
    /\ control_pc' = "ended"
    /\ UNCHANGED <<run_state, stop_requested, pause_event, socket_in, client_left>>
    /\ UNCHANGED <<gvars, ovars, xvars, mvars, rvars, tvars>>

NextReview ==
    \/ \E m \in ClientMessages : ClientSends(m)
    \/ ReviewLoopTop
    \/ ReviewReceives
    \/ ReviewTimeout
    \/ ControlReceives
    \/ RunSeesStop

\* Both tasks are scheduled by the event loop and both timeouts expire.
SpecReview ==
    /\ InitReview
    /\ [][NextReview]_vars
    /\ WF_vars(ReviewLoopTop)
    /\ WF_vars(ReviewReceives)
    /\ WF_vars(ReviewTimeout)
    /\ WF_vars(ControlReceives)
    /\ WF_vars(RunSeesStop)

\* ========================================================== OuterLoop
\* OuterLoop.run and TerminationChecker.should_stop.  Scores are counted in
\* thousandths, goal achievements and thresholds in tenths.
MaxIters == 5
Scores == {0, 1, 3}
GoalReports == {<<>>, <<7>>}
GoalThresholds == {<<>>, <<7>>}

\* TerminationConfig
convergence_eps == 1
convergence_patience == 3
pareto_patience == 3

\* LoopState.pareto_history: nothing in the loop appends to it.
pareto_history == <<>>

Abs(x) == IF x < 0 THEN -x ELSE x

\* TerminationChecker._is_converged
IsConverged(h) ==
    IF Len(h) < convergence_patience + 1 THEN FALSE
    ELSE LET first_score == h[Len(h) - convergence_patience] IN
         \A i \in (Len(h) - convergence_patience + 1)..Len(h) :
             ~(Abs(h[i] - first_score) > convergence_eps)

\* goal_achievement.get("goal_<i>", 0), the first goal being goal_0
GoalAchievement(report, i) == IF i <= Len(report) THEN report[i] ELSE 0

\* TerminationChecker._all_goals_achieved
AllGoalsAchieved(thresholds, reports) ==
    IF thresholds = <<>> THEN FALSE
    ELSE IF reports = <<>> THEN FALSE
    ELSE \A i \in 1..Len(thresholds) :
             ~(GoalAchievement(reports[Len(reports)], i) < thresholds[i])

\* TerminationChecker._pareto_stable
ParetoStable(h) ==
    IF Len(h) < pareto_patience + 1 THEN FALSE
    ELSE \A i \in (Len(h) - pareto_patience + 1)..Len(h) :
             h[i] = h[Len(h) - pareto_patience]

\* TerminationChecker.should_stop: the reason it records, or "" when it
\* returns False.
StopReason ==
    IF iteration >= max_iters THEN "max_iterations"
    ELSE IF IsConverged(score_history) THEN "converged"
    ELSE IF AllGoalsAchieved(goal_thresholds, analysis_reports) THEN "goals_achieved"
    ELSE IF ParetoStable(pareto_history) THEN "pareto_stable"
    ELSE ""

ShouldStop == StopReason # ""

\* run() has yielded its first LogEvent; the checker is fresh.
InitOuterLoop ==
    /\ GatewayInit(MaxFrames)
    /\ OrchInit
    /\ LlmIdle
    /\ AuthIdle
    /\ WavIdle
    /\ PiperIdle
    /\ MetricsIdle
    /\ RegistryIdle
    /\ ReviewIdle
    /\ loop_pc = "top"
    /\ iteration = 0
    /\ max_iters \in 0..MaxIters
    /\ goal_thresholds \in GoalThresholds
    /\ score_history = <<>>
    /\ analysis_reports = <<>>
    /\ analysis_result = "unbound"
    /\ plan_result = "unbound"
    /\ termination_reason = ""
    /\ final_reports = 0
    /\ last_event = "log"
    /\ final = NoFinal

\* `while not self.terminator.should_stop(state)`: either the next
\* iteration begins, or the loop is left and the FinalReport is yielded.
WhileNotStop ==
    /\ loop_pc = "top"
    /\ IF ShouldStop
         THEN /\ termination_reason' = StopReason
              /\ final' = [total_iterations |-> iteration,
                           termination_reason |-> StopReason]
              /\ final_reports' = final_reports + 1
              /\ last_event' = "final"
              /\ loop_pc' = "done"
              /\ UNCHANGED iteration
         ELSE /\ iteration' = iteration + 1
              /\ last_event' = "log"
              /\ loop_pc' = "analyze"
              /\ UNCHANGED <<termination_reason, final, final_reports>>
    /\ UNCHANGED <<max_iters, goal_thresholds, score_history, analysis_reports,
                   analysis_result, plan_result>>
    /\ UNCHANGED <<gvars, ovars, xvars, mvars, rvars, hvars>>

\* Step 1.  The analyzer raises, or returns something _build_analysis_report
\* raises on, or returns a result whose report is appended.  The review of
\* the report, when the mode asks for one, is yielded here.
Analyze(outcome, report) ==
    /\ loop_pc = "analyze"
    /\ analysis_result' = IF outcome = "raises" THEN analysis_result ELSE "bound"
    /\ analysis_reports' = IF outcome = "result"
                               THEN Append(analysis_reports, report)
                               ELSE analysis_reports
    /\ last_event' = "log"
    /\ loop_pc' = "plan"
    /\ UNCHANGED <<iteration, max_iters, goal_thresholds, score_history,
                   plan_result, termination_reason, final_reports, final>>
    /\ UNCHANGED <<gvars, ovars, xvars, mvars, rvars, hvars>>

\* Step 2.  The argument of planner.run names analysis_result: when that
\* local is unbound the try block raises before the planner is called.
Plan(raises) ==
    /\ loop_pc = "plan"
    /\ plan_result' = IF raises \/ analysis_result = "unbound" THEN plan_result
                                                              ELSE "bound"
    /\ last_event' = "log"
    /\ loop_pc' = "plan_review"
    /\ UNCHANGED <<iteration, max_iters, goal_thresholds, score_history,
                   analysis_reports, analysis_result, termination_reason,
                   final_reports, final>>
    /\ UNCHANGED <<gvars, ovars, xvars, mvars, rvars, hvars>>

\* `if self.mode.requires_human_review("plan")`: the HumanReviewRequest is
\* built from plan_result outside any try block; an unbound local ends the
\* generator with UnboundLocalError.
PlanReview(required) ==
    /\ loop_pc = "plan_review"
    /\ loop_pc' = IF required /\ plan_result = "unbound" THEN "raised"
                                                         ELSE "implement"
    /\ last_event' = "log"
    /\ UNCHANGED <<iteration, max_iters, goal_thresholds, score_history,
                   analysis_reports, analysis_result, plan_result,
                   termination_reason, final_reports, final>>
    /\ UNCHANGED <<gvars, ovars, xvars, mvars, rvars, hvars>>

\* Step 3.  Whatever the implementer does, a scoring_code is at hand.
Implement ==
    /\ loop_pc = "implement"
    /\ loop_pc' = "optimize"
    /\ last_event' = "log"
    /\ UNCHANGED <<iteration, max_iters, goal_thresholds, score_history,
                   analysis_reports, analysis_result, plan_result,
                   termination_reason, final_reports, final>>
    /\ UNCHANGED <<gvars, ovars, xvars, mvars, rvars, hvars>>

\* LoopState.update: a non-empty result appends its best score.
Update(h, optimized) == IF optimized = <<>> THEN h ELSE Append(h, optimized[1])

\* Step 4.  The optimizer raises or returns candidates, best first; the
\* IterationResult is yielded.
Optimize(raises, optimized) ==
    /\ loop_pc = "optimize"
    /\ score_history' = IF raises THEN score_history
                                  ELSE Update(score_history, optimized)
    /\ last_event' = "result"
    /\ loop_pc' = "top"
    /\ UNCHANGED <<iteration, max_iters, goal_thresholds, analysis_reports,
                   analysis_result, plan_result, termination_reason,
                   final_reports, final>>
    /\ UNCHANGED <<gvars, ovars, xvars, mvars, rvars, hvars>>

Optimized == {<<>>} \cup {<<x>> : x \in Scores}

NextOuterLoop ==
    \/ WhileNotStop
    \/ \E outcome \in {"raises", "not_a_dict", "result"}, report \in GoalReports :
          Analyze(outcome, report)
    \/ \E raises \in BOOLEAN : Plan(raises)
    \/ \E required \in BOOLEAN : PlanReview(required)
    \/ Implement
    \/ \E raises \in BOOLEAN, optimized \in Optimized : Optimize(raises, optimized)

SpecOuterLoop == InitOuterLoop /\ [][NextOuterLoop]_vars

\* ---------------------------------------------------------------- claims
Last(q) == q[Len(q)]

\* The positions of wire[c] that hold a frame of type t.
Sent(c, t) == {i \in DOMAIN wire[c] : wire[c][i].type = t}

\* The connection wrote a frame in this step.
Wrote(c) == wire'[c] # wire[c]

\* The frames sent for session sid, over all connections.
TtsEndsFor(sid) ==
    {<<c, i>> \in Conns \X (1..(MaxFramesDeep + MaxUnits * MaxChunksPerUnit + 4)) :
        i \in Sent(c, "tts_end") /\ wire[c][i].sid = sid}

\* C1: over a session's life exactly one tts_end is sent to the peer; stated
\* here as its safety half: never more than one tts_end is sent for a session,
\* whatever frames arrive (text_end then cancel, cancel more than once).
C1_OneTtsEndPerSession ==
    \A sid \in SessionIds : Cardinality(TtsEndsFor(sid)) <= 1

\* C2: once tts_end has been sent on a connection no further frame of any
\* type is sent on it: a tts_end on the wire is the last frame of the wire.
C2_NothingAfterTtsEnd ==
    \A c \in Conns : \A i \in Sent(c, "tts_end") : i = Len(wire[c])

\* C2's case: tts_end was sent and closed the connection while the reader had
\* a frame of its own waiting for send_lock; that frame was never written.
C2_Witness ==
    \E c \in Conns :
        /\ Sent(c, "tts_end") # {}
        /\ rpc[c] = "done"
        /\ rout[c] # NoFrame
        /\ \A i \in DOMAIN wire[c] : wire[c][i] # rout[c]

\* C3: once a cancel has been processed for a session, the tts_end written to
\* the peer carries cancelled = true and the seq of that cancel (the
\* session's seq), also when a text_end came before the cancel.
C3_TtsEndAfterCancelIsCancelled ==
    [][\A c \in Conns :
          (/\ st[c] # None
           /\ sess[st[c]].cancelled
           /\ Wrote(c)
           /\ Last(wire'[c]).type = "tts_end")
          => Last(wire'[c]).cancelled]_vars

\* C4: once a cancel has been processed for a session, no audio_chunk is
\* written to the peer for it any more.
C4_NoAudioAfterCancel ==
    [][\A c \in Conns :
          (st[c] # None /\ sess[st[c]].cancelled /\ Wrote(c))
          => Last(wire'[c]).type # "audio_chunk"]_vars

\* The audio chunks the writer task took from send_queue, in sending order.
QueueChunks(c) ==
    SelectSeq(wire[c], LAMBDA m : m.type = "audio_chunk" /\ m.via = "queue")

\* The audio chunks still waiting in the session's send_queue.
QueuedChunks(sid) ==
    IF sess[sid].exists
    THEN SelectSeq(sess[sid].send_queue, LAMBDA m : m.type = "audio_chunk")
    ELSE <<>>

\* A sequence of chunks in emission order: every chunk covers one unit
\* [k, k+1), starts never go back, and the chunks follow the order in which
\* their text units were enqueued.
InEmissionOrder(q) ==
    /\ \A i \in DOMAIN q : q[i].ue = q[i].us + 1
    /\ \A i, j \in DOMAIN q :
          i < j => (q[i].us <= q[j].us /\ q[i].unit <= q[j].unit)

\* C5: the audio chunks the synth loop emits for a session are non-decreasing
\* in (unit_index_start, unit_index_end), each covers one unit [k, k+1),
\* consecutive units are contiguous, and they reach the peer in the FIFO order
\* of their text units: on every connection, in the queue, and between what
\* was sent and what is still queued.
C5_ChunksInOrder ==
    /\ \A c \in Conns : InEmissionOrder(QueueChunks(c))
    /\ \A sid \in SessionIds :
          LET q == QueuedChunks(sid)
              sent == {m \in UNION {{QueueChunks(c)[i] : i \in DOMAIN QueueChunks(c)} :
                                       c \in Conns} : m.sid = sid}
              all == sent \cup {q[i] : i \in DOMAIN q}
          IN  /\ InEmissionOrder(q)
              /\ \A m \in sent : \A i \in DOMAIN q : m.us <= q[i].us
              /\ \A m \in all : m.us > 0 => \E n \in all : n.us = m.us - 1

\* C5's case: one connection has been sent chunks of two consecutive units.
C5_Witness ==
    \E c \in Conns :
        LET q == QueueChunks(c)
        IN  \E i, j \in DOMAIN q : i < j /\ q[i].us = 0 /\ q[j].us = 1

\* C6: while a resume re-emits the cached chunks, the frames it writes are
\* not interleaved with chunks the writer task sends from send_queue: in the
\* middle of the resume loop the last frame on the wire is one of its own.
C6_ResumeNotInterleaved ==
    \A c \in Conns :
        rpc[c] = "resume" => Last(wire[c]).via = "direct"

\* C7: a resume whose last_unit_index_received is older than the start of the
\* oldest cached chunk re-emits nothing (it is answered resume_not_available):
\* the resume loop never runs over a cache whose oldest chunk starts after
\* the requested index.
C7_OldResumeNotReplayed ==
    \A c \in Conns :
        (/\ rpc[c] = "resume"
         /\ sess[st[c]].produced = res[c].ver)
        => ~(res[c].last < sess[st[c]].cache[1].us)

\* C8: the resume_not_available error is written by the reader itself and
\* ends nothing: the step that writes it leaves the connection open, the
\* session (queue, cache, seq, finished, cancelled) and the writer task as
\* they were, and the reader goes back to receiving frames.
C8_ResumeMissKeepsGoing ==
    [][\A c \in Conns :
          (Wrote(c) /\ Last(wire'[c]).code = "resume_not_available")
          => /\ Last(wire'[c]).type = "error"
             /\ Last(wire'[c]).via = "direct"
             /\ ~wsClosed'[c]
             /\ sess' = sess
             /\ spc'[c] = spc[c]
             /\ rpc'[c] = "recv"]_vars

\* C8's case: after a resume_not_available error a later frame of the same
\* connection was processed and answered.
C8_Witness ==
    \E c \in Conns : \E i, j \in DOMAIN wire[c] :
        /\ i < j
        /\ wire[c][i].code = "resume_not_available"
        /\ wire[c][j].type \in {"audio_chunk", "tts_end"}

\* A connection without a session was answered for a start that did not
\* parse: the only frame that is answered internal_error before a session.
MalformedStartAnswered(c) ==
    st[c] = None /\ wire[c] # <<>> /\ wire[c][1].code = "internal_error"

\* C9: a connection whose first well-formed message is not start gets exactly
\* one error frame with code bad_request and is closed, its handler and
\* tasks end, and no session is created: while no connection has started a
\* session, none exists.
C9_FirstFrameMustBeStart ==
    /\ \A c \in Conns :
          (st[c] = None /\ wire[c] # <<>> /\ ~MalformedStartAnswered(c))
          => /\ wire[c] = <<ErrorFrame("", 0, "bad_request")>>
             /\ wsClosed[c]
             /\ rpc[c] = "done"
             /\ spc[c] = "none"
    /\ (\A c \in Conns : st[c] = None)
          => /\ \A sid \in SessionIds : ~sess[sid].exists
             /\ sessions_total = 0

\* C9's case: a connection was answered without ever having started a
\* session, after its quota of frames was used on it.
C9_Witness ==
    \E c \in Conns : /\ st[c] = None /\ Len(wire[c]) = 1 /\ nleft < MaxFrames
                      /\ ~MalformedStartAnswered(c)

\* C10: a second start on a connection that already started a session does
\* not silently start again: a connection is sent at most one start_ack, and
\* sessions_total counts at most one session per connection.
C10_SecondStartRejected ==
    /\ \A c \in Conns : Cardinality(Sent(c, "start_ack")) <= 1
    /\ sessions_total <= Cardinality({c \in Conns : st[c] # None})

\* The error frame the reader hands to send_json_locked in this step, written
\* at once or kept until send_lock is free.
ErrorHandedOver(c, code) ==
    \/ Wrote(c) /\ Last(wire'[c]).type = "error" /\ Last(wire'[c]).code = code
    \/ /\ rpc'[c] = "lockwait"
       /\ rout'[c].type = "error"
       /\ rout'[c].code = code

\* C11: every frame that lacks a required field or has a field of the wrong
\* type, of whichever type (start, text_delta, text_end, cancel, resume), is
\* answered with an error whose code is bad_request, not internal_error.
C11_InvalidFrameIsBadRequest ==
    [][\A c \in Conns, t \in ParsedTypes :
          RecvInvalid(c, t) => ErrorHandedOver(c, "bad_request")]_vars

\* The reader takes frame f of the client, by the branch of its type.
Receives(c, f) ==
    \/ RecvTextDelta(c, f)
    \/ RecvTextEnd(c, f)
    \/ RecvCancel(c, f)
    \/ RecvResume(c, f)

\* C12: a frame after start whose session_id differs from the connection's
\* session is answered with error bad_request (which closes the connection)
\* and leaves the session as it was, whatever its type.
C12_MismatchRejected ==
    [][\A c \in Conns, f \in InFrames :
          (/\ st[c] # None
           /\ f.sid # st[c]
           /\ Receives(c, f))
          => /\ ErrorHandedOver(c, "bad_request")
             /\ sess' = sess]_vars

\* The frames of session sid that carry error{code = backpressure}, queued
\* or already written to a peer.
BackpressureErrors(sid) ==
    {m \in {sess[sid].send_queue[i] : i \in DOMAIN sess[sid].send_queue}
           \cup UNION {{wire[c][i] : i \in DOMAIN wire[c]} : c \in Conns} :
        m.type = "error" /\ m.code = "backpressure" /\ m.sid = sid}

\* C13: send_queue never holds more than its high-water mark of entries
\* without an error{code = backpressure} having been emitted for the session.
C13_QueueWithinHighWater ==
    \A sid \in SessionIds :
        (sess[sid].exists /\ Len(sess[sid].send_queue) > HighWater)
        => BackpressureErrors(sid) # {}

\* The /tts connections that are being handled: accepted, handler not ended.
Handled == {c \in Conns : rpc[c] \notin {"idle", "done"}}

\* C14: active_connections equals the number of /tts connections currently
\* being handled; with every connection ended it is back to its value
\* before they were opened.
C14_GaugeCountsHandled ==
    active_connections = Cardinality(Handled)

\* The sessions of which at least one audio_chunk was written to a peer.
SessionsWithAudio ==
    {sid \in SessionIds :
        \E c \in Conns : \E i \in Sent(c, "audio_chunk") : wire[c][i].sid = sid}

\* C15: the number of TTFA samples equals the number of sessions that
\* emitted at least one audio_chunk: never more samples than such sessions,
\* and as many once every connection has ended.
C15_OneTtfaSamplePerSession ==
    /\ ttfa_count <= Cardinality(SessionsWithAudio)
    /\ (\A c \in Conns : rpc[c] \in {"idle", "done"})
          => ttfa_count = Cardinality(SessionsWithAudio)

\* The client has been sent a message of type t.
ClientHas(t) == \E i \in DOMAIN client_out : client_out[i].obj.type = t

\* C16: when the client's cancel arrived while the LLM stream was running
\* and the streamer was cancelled for it, the handler has sent
\* orchestrator_cancelled and no llm_done by the time it ends.
C16_CancelIsAnnounced ==
    (main_pc = "exit" /\ cancel_requested /\ llm_task = "cancelled")
    => ClientHas("orchestrator_cancelled") /\ ~ClientHas("llm_done")

\* C17: after a client cancel the bridge is not torn down before its sender
\* sub-task has sent a cancel frame to the TTS gateway: when the connected
\* bridge ends with a cancel requested, a cancel frame has been sent.
C17_CancelReachesTts ==
    [][(cancel_requested /\ tts_task = "read" /\ Terminal(tts_task'))
          => \E i \in DOMAIN tts_sent' : tts_sent'[i].type = "cancel"]_vars

\* The gateway has answered a cancel frame with tts_end{cancelled: true}.
GatewayAnswered ==
    \E m \in {tts_inbox[i] : i \in DOMAIN tts_inbox}
              \cup {tts_received[i] : i \in DOMAIN tts_received} :
        m.obj.type = "tts_end" /\ m.obj.cancelled

\* C18: the tts_end{cancelled: true} with which the gateway answers the
\* cancel is relayed to the client: when the bridge takes it from the TTS
\* socket, it sends it to the client.
C18_CancelledEndIsRelayed ==
    [][(GatewayAnswered /\ tts_inbox # <<>> /\ tts_inbox' = Tail(tts_inbox)
          /\ Head(tts_inbox).obj.type = "tts_end" /\ Head(tts_inbox).obj.cancelled)
       => client_out' = WsSendJson(client_out, JsonLoads(Head(tts_inbox)))]_vars

\* C19: on every exit path of a connection whose request was parsed the
\* whole cleanup is carried out: the sentinel is pushed, the cancel listener
\* and the bridge are cancelled and awaited and have ended, and the client
\* socket is closed.
C19_CleanupIsComplete ==
    (main_pc = "exit" /\ cancel_task # "none")
    => /\ {"sentinel", "cancel_task", "tts_task", "ws_close"} \subseteq done_steps
       /\ Terminal(cancel_task)
       /\ Terminal(tts_task)
       /\ client_closed

\* The JSON values of a sequence of text frames.
Objs(q) == [i \in DOMAIN q |-> JsonLoads(q[i])]

\* The messages of the client that were relayed from the gateway.
Relayed == SelectSeq(client_out, LAMBDA m : m.obj.type \in TtsTypes)

\* q up to and including its first tts_end or error.
UpToTerminal(q) ==
    LET ends == {i \in DOMAIN q : q[i].type \in {"tts_end", "error"}} IN
    IF ends = {} THEN q
    ELSE SubSeq(q, 1, CHOOSE i \in ends : \A j \in ends : i <= j)

IsPrefix(p, q) == Len(p) <= Len(q) /\ SubSeq(q, 1, Len(p)) = p

TextDeltasSent == SelectSeq(tts_sent, LAMBDA f : f.type = "text_delta")

\* C21: the text_delta frames sent to the gateway carry seq 1, 2, 3, ... in
\* send order and the text segments in the order they were pushed; a
\* text_end or cancel frame is the last frame sent and carries the seq after
\* the last text_delta.
C21_BridgeSeqIsDense ==
    /\ \A i \in DOMAIN TextDeltasSent :
          /\ TextDeltasSent[i].seq = i
          /\ TextDeltasSent[i].text = SegNames[i]
    /\ \A i \in DOMAIN tts_sent :
          tts_sent[i].type \in {"text_end", "cancel"}
          => /\ i = Len(tts_sent)
             /\ tts_sent[i].seq = Len(TextDeltasSent) + 1

\* C21's case: two segments were sent as text_delta, with a third pushed
\* behind them or a terminal frame after them.
C21_Witness ==
    /\ Len(TextDeltasSent) = 2
    /\ tts_sent[Len(tts_sent)].type \in {"text_end", "cancel"}

\* C30: the seq stored for a session never decreases, whatever text_delta,
\* text_end and cancel frames arrive for it.
C30_SeqNeverDecreases ==
    [][\A sid \in SessionIds :
          (sess[sid].exists /\ sess'[sid].exists)
          => sess'[sid].seq >= sess[sid].seq]_vars

\* C29: every chunk that synthesize_pcm16_stream yields holds whole frames:
\* its length is a multiple of 2 * channels, whatever the channel count, the
\* chunk_bytes value and the length of the PCM.
C29_ChunksHoldWholeFrames ==
    \A i \in DOMAIN yielded : Len(yielded[i]) % (2 * channels) = 0

\* base64 decoding: four characters give three bytes, fewer before padding.
RECURSIVE B64Decode(_)
B64Decode(t) ==
    IF Len(t) < 4 THEN <<>>
    ELSE LET b1 == t[1] * 4 + t[2] \div 16
             b2 == (t[2] % 16) * 16 + t[3] \div 4
             b3 == (t[3] % 4) * 64 + t[4]
         IN  (IF t[3] = 64 THEN <<b1>>
              ELSE IF t[4] = 64 THEN <<b1, b2>>
              ELSE <<b1, b2, b3>>)
             \o B64Decode(SubSeq(t, 5, Len(t)))

\* The unsigned little-endian number in the n bytes of h from offset off.
RECURSIVE LittleEndian(_, _, _)
LittleEndian(h, off, n) ==
    IF n = 0 THEN 0 ELSE h[off + 1] + 256 * LittleEndian(h, off + 1, n - 1)

\* C28: a start_ack carries wav_header_base64 if and only if the session's
\* audio_format is pcm16_wav, and the header then decodes to exactly 44
\* bytes: RIFF, WAVE and fmt chunks with format code 1, 16 bits per sample,
\* the session's channel count and sample rate, byte_rate = sample_rate *
\* channels * 2, block_align = channels * 2, and a data chunk of size 0.
C28_WavHeaderInStartAck ==
    start_ack.type = "start_ack"
    => /\ "wav_header_base64" \in DOMAIN start_ack
            <=> audio_spec.audio_format = "pcm16_wav"
       /\ "wav_header_base64" \in DOMAIN start_ack
            => LET h == B64Decode(start_ack.wav_header_base64) IN
               /\ Len(h) = 44
               /\ SubSeq(h, 1, 4) = <<82, 73, 70, 70>>
               /\ SubSeq(h, 9, 12) = <<87, 65, 86, 69>>
               /\ SubSeq(h, 13, 16) = <<102, 109, 116, 32>>
               /\ LittleEndian(h, 16, 4) = 16
               /\ LittleEndian(h, 20, 2) = 1
               /\ LittleEndian(h, 22, 2) = audio_spec.channels
               /\ LittleEndian(h, 24, 4) = audio_spec.sample_rate
               /\ LittleEndian(h, 28, 4)
                     = audio_spec.sample_rate * audio_spec.channels * 2
               /\ LittleEndian(h, 32, 2) = audio_spec.channels * 2
               /\ LittleEndian(h, 34, 2) = 16
               /\ SubSeq(h, 37, 40) = <<100, 97, 116, 97>>
               /\ LittleEndian(h, 40, 4) = 0

\* C28's case: a start_ack with a header for a session of several channels.
C28_Witness ==
    /\ start_ack.type = "start_ack"
    /\ "wav_header_base64" \in DOMAIN start_ack
    /\ Len(start_ack.wav_header_base64) = 60
    /\ audio_spec.channels = 6
    /\ audio_spec.sample_rate = 44100

\* str without the white space around it.
Trimmed(str) ==
    LET solid == {i \in DOMAIN str : str[i] # " "} IN
    IF solid = {} THEN <<>>
    ELSE SubSeq(str, CHOOSE i \in solid : \A j \in solid : i <= j,
                     CHOOSE i \in solid : \A j \in solid : i >= j)

\* The token of a header that reads, inside white space, as the word bearer
\* in any case, one blank, and the token.
TokenOf(auth) ==
    LET t == Trimmed(auth) IN
    IF Len(t) >= 2 /\ t[1] \in {"Bearer", "bearer", "BEARER"} /\ t[2] = " "
    THEN Trimmed(SubSeq(t, 3, Len(t)))
    ELSE <<>>

\* Nothing of the /chat handler has happened: no message to the client, no
\* task, no frame to the gateway.
NothingStarted ==
    /\ main_pc = "receive"
    /\ client_out = <<>>
    /\ llm_task = "none"
    /\ tts_task = "none"
    /\ tts_sent = <<>>

\* C27: with a key that is not blank, a request is upgraded if and only if
\* the api_key query parameter or the Bearer token equals the key, all three
\* taken without the white space around them; a request that gets 401
\* starts nothing.  With a blank or unset key every request is upgraded.
C27_AuthGate ==
    /\ auth_result \in {"401", "upgraded"}
          => (auth_result = "upgraded"
                <=> \/ Trimmed(orch_api_key) = <<>>
                    \/ Trimmed(query_api_key) = Trimmed(orch_api_key)
                    \/ TokenOf(authorization) = Trimmed(orch_api_key))
    /\ auth_result # "upgraded" => NothingStarted

\* C27's case: a request with a wrong api_key was upgraded on its Bearer
\* token, written with a lower-case scheme, and the handler has started.
C27_Witness ==
    /\ auth_result = "upgraded"
    /\ orch_api_key = <<"k">>
    /\ query_api_key = <<"x">>
    /\ authorization = <<"bearer", " ", "k">>
    /\ client_out # <<>>

\* C27 as stated: with ORCH_API_KEY set, a request is upgraded only if the
\* query parameter or the Bearer token equals the key itself.
C27_AuthGateLiteral ==
    (auth_result = "upgraded" /\ orch_api_key # <<>>)
    => \/ query_api_key = orch_api_key
       \/ \E w \in {"Bearer", "bearer", "BEARER"} :
             authorization = <<w, " ">> \o orch_api_key


\* ---------------------------------------------------------------- C22
\* The content a step appended to full_text, and the buffer it made of it.
Appended == SubSeq(full_text', Len(full_text) + 1, Len(full_text'))

FlushRule ==
    LET buf == tts_buffer \o Appended
        due == \/ Len(buf) >= tts_flush_min_chars
               \/ tts_flush_on_punct /\ buf[Len(buf)] \in PUNCTUATION
    IN  IF due
        THEN text_queue' = Append(text_queue, Segment(buf)) /\ tts_buffer' = <<>>
        ELSE text_queue' = text_queue /\ tts_buffer' = buf

NoTrailingPunctuation ==
    tts_flush_on_punct' /\ tts_buffer' # <<>>
        => tts_buffer'[Len(tts_buffer')] \notin PUNCTUATION

\* C22: on every step that appends a non-empty content delta, tts_buffer is
\* pushed whole and cleared if and only if it has reached TTS_FLUSH_MIN_CHARS
\* or punctuation flushing is on and it ends with a punctuation character;
\* afterwards the buffer does not end with a punctuation character when
\* punctuation flushing is on and, for a threshold of at least 1, it is
\* shorter than the threshold.
C22_FlushRule ==
    [][full_text' # full_text =>
          /\ FlushRule
          /\ NoTrailingPunctuation
          /\ (tts_flush_min_chars >= 1 => Len(tts_buffer') < tts_flush_min_chars)]_vars

\* Both ways of the rule have happened: a segment shorter than the threshold
\* was pushed for its punctuation, and a delta stayed in the buffer.
C22_Witness ==
    /\ \E n \in 1..Len(text_queue) :
          /\ ~text_queue[n].none
          /\ Len(text_queue[n].text) < tts_flush_min_chars
    /\ tts_buffer # <<>>
    /\ Len(full_text) > Len(tts_buffer)

\* C22 as stated, for every threshold: after every processed delta the buffer
\* is shorter than the threshold.
C22_BufferBelowThreshold ==
    [][full_text' # full_text => Len(tts_buffer') < tts_flush_min_chars]_vars


\* ---------------------------------------------------------------- C23
\* The texts of the items of a sequence, one after the other.
RECURSIVE Concat(_)
Concat(texts) ==
    IF texts = <<>> THEN <<>> ELSE Head(texts) \o Concat(Tail(texts))

\* The lengths at which a text made of these pieces may be cut.
Boundaries(texts) ==
    {Len(Concat(SubSeq(texts, 1, n))) : n \in 0..Len(texts)}

\* The contents of the llm_delta messages sent, and the segments pushed.
DeltasSent ==
    LET ds == SelectSeq(llm_sent, LAMBDA m : m.type = "llm_delta")
    IN  [n \in 1..Len(ds) |-> ds[n].delta]

SegmentsPushed ==
    LET segs == SelectSeq(text_queue, LAMBDA item : ~item.none)
    IN  [n \in 1..Len(segs) |-> segs[n].text]

\* C23: when the streamer has returned without stop, the segments pushed,
\* in order, make full_text, which is the concatenation of the content
\* deltas; no segment is empty; every segment ends where a delta ends; and
\* the queue holds exactly one sentinel, after all segments.
C23_SegmentsMakeFullText ==
    llm_pc = "done" /\ ~stop_set
        => /\ Concat(SegmentsPushed) = full_text
           /\ Concat(DeltasSent) = full_text
           /\ llm_res.full_text = full_text
           /\ \A n \in 1..Len(SegmentsPushed) : SegmentsPushed[n] # <<>>
           /\ Boundaries(SegmentsPushed) \subseteq Boundaries(DeltasSent)
           /\ text_queue # <<>>
           /\ text_queue[Len(text_queue)] = Sentinel
           /\ \A n \in 1..(Len(text_queue) - 1) : ~text_queue[n].none

\* A successful end after a flush in the loop and with a rest in the buffer
\* that only the end of the stream pushed, one segment made of two deltas.
C23_Witness ==
    /\ llm_pc = "done" /\ ~stop_set
    /\ Len(SegmentsPushed) = 2
    /\ Len(DeltasSent) = 3
    /\ tts_buffer # <<>>
    /\ ~ShouldFlush(tts_buffer)


ParseError == [type |-> "orchestrator_error", code |-> "llm_parse_error"]

\* C25: a data line that cannot be parsed sends exactly one orchestrator_error
\* llm_parse_error and leaves full_text, tts_buffer, the tool-call accumulator
\* and the text queue as they were; without stop the streamer reads the next
\* line; and whatever lines were bad, the text of the deltas sent is
\* full_text and is the segments pushed followed by the buffer.
C25_ParseErrorIsSkipped ==
    /\ [][StreamBadLine =>
             /\ llm_sent' = Append(llm_sent, ParseError)
             /\ full_text' = full_text
             /\ tts_buffer' = tts_buffer
             /\ tool_acc' = tool_acc
             /\ text_queue' = text_queue
             /\ (~stop_set => llm_pc' = "read")]_vars
    /\ [](llm_pc = "read" =>
             /\ Concat(DeltasSent) = full_text
             /\ Concat(SegmentsPushed) \o tts_buffer = full_text)

\* A bad line between two deltas of one segment: the text before it was
\* kept and pushed with the text after it.
C25_Witness ==
    /\ Len(llm_sent) = 3
    /\ llm_sent[1].type = "llm_delta"
    /\ llm_sent[2] = ParseError
    /\ llm_sent[3].type = "llm_delta"
    /\ SegmentsPushed = <<llm_sent[1].delta \o llm_sent[3].delta>>


\* ---------------------------------------------------------------- C26
\* The entries of the tool-call lines received, in arrival order, each with
\* the index it is addressed to: its own, else its position in its list.
RECURSIVE Addressed(_)
Addressed(lines) ==
    IF lines = <<>> THEN <<>>
    ELSE LET last == lines[Len(lines)]
         IN  Addressed(SubSeq(lines, 1, Len(lines) - 1))
             \o [n \in 1..Len(last) |->
                    [index |-> IF last[n].has_index THEN last[n].index ELSE n - 1,
                     tc |-> last[n]]]

EntriesFor(idx) == SelectSeq(Addressed(tool_lines), LAMBDA e : e.index = idx)

FragmentsFor(idx) ==
    [n \in 1..Len(EntriesFor(idx)) |-> EntriesFor(idx)[n].tc.arguments]

SnapshotsSent == SelectSeq(llm_sent, LAMBDA m : m.type = "tool_calls_delta")

\* A snapshot lists the entries of the accumulator by ascending index.
IsSnapshotOf(snap, acc) ==
    /\ {snap[n].index : n \in 1..Len(snap)} = DOMAIN acc
    /\ \A n \in 1..Len(snap) : \A k \in 1..Len(snap) :
          n < k => snap[n].index < snap[k].index
    /\ \A n \in 1..Len(snap) :
          LET cur == acc[snap[n].index]
          IN  /\ snap[n].id = cur.tool_call_id
              /\ snap[n].name = cur.function_name
              /\ snap[n].arguments = cur.arguments

\* C26: the accumulator has an entry for exactly the indices addressed; its
\* arguments are the fragments addressed to the index, concatenated in
\* arrival order; its id and its name are one value each, the last
\* non-empty one the deltas gave for the index (empty when they gave none),
\* never a concatenation; one snapshot by ascending index was
\* sent for every line with tool calls, the last one showing the accumulator;
\* and the streamer returns the last snapshot sent.
C26_ToolCallsAccumulate ==
    /\ DOMAIN tool_acc = {Addressed(tool_lines)[n].index :
                             n \in 1..Len(Addressed(tool_lines))}
    /\ \A idx \in DOMAIN tool_acc :
          LET ids == SelectSeq(EntriesFor(idx), LAMBDA e : e.tc.id # "")
              names == SelectSeq(EntriesFor(idx), LAMBDA e : e.tc.name # "")
          IN  /\ tool_acc[idx].index = idx
              /\ tool_acc[idx].arguments = Concat(FragmentsFor(idx))
              /\ tool_acc[idx].tool_call_id =
                    IF ids = <<>> THEN "" ELSE ids[Len(ids)].tc.id
              /\ tool_acc[idx].function_name =
                    IF names = <<>> THEN "" ELSE names[Len(names)].tc.name
    /\ Len(SnapshotsSent) = Len(tool_lines)
    /\ \A n \in 1..Len(SnapshotsSent) :
          \A k \in 1..Len(SnapshotsSent[n].tool_calls) :
             \A j \in 1..Len(SnapshotsSent[n].tool_calls) :
                k < j => SnapshotsSent[n].tool_calls[k].index
                            < SnapshotsSent[n].tool_calls[j].index
    /\ SnapshotsSent # <<>>
          => IsSnapshotOf(SnapshotsSent[Len(SnapshotsSent)].tool_calls, tool_acc)
    /\ llm_pc = "done"
          => llm_res.tool_calls =
                IF SnapshotsSent = <<>> THEN <<>>
                ELSE SnapshotsSent[Len(SnapshotsSent)].tool_calls

\* The streamer has returned after a list of two entries without an index
\* and a later fragment for index 1: two entries, the second with two
\* fragments, one filed by position and one by its index.
C26_Witness ==
    /\ llm_pc = "done"
    /\ Len(tool_lines) = 2
    /\ Len(tool_lines[1]) = 2
    /\ ~tool_lines[1][2].has_index
    /\ tool_lines[2][1].has_index /\ tool_lines[2][1].index = 1
    /\ DOMAIN tool_acc = {0, 1}
    /\ Len(tool_acc[1].arguments) = 2
    /\ Len(llm_res.tool_calls) = 2


\* ---------------------------------------------------------------- C35
\* The types of the messages sent to the client of /chat, in order.
ClientTypes == [n \in 1..Len(client_out) |-> client_out[n].obj.type]

\* C35: llm_done and orchestrator_cancelled are never both sent on one
\* connection, and no llm_delta or tool_calls_delta follows either of them.
C35_DoneXorCancelled ==
    /\ ~(ClientHas("llm_done") /\ ClientHas("orchestrator_cancelled"))
    /\ \A n \in 1..Len(client_out) : \A k \in 1..Len(client_out) :
          /\ n < k
          /\ ClientTypes[n] \in {"llm_done", "orchestrator_cancelled"}
          => ClientTypes[k] \notin {"llm_delta", "tool_calls_delta"}

\* llm_done was sent after two deltas, with a cancel of the client behind it.
C35_Witness ==
    /\ Len(client_out) >= 4
    /\ ClientTypes[2] = "llm_delta"
    /\ ClientTypes[3] = "llm_delta"
    /\ ClientTypes[4] = "llm_done"
    /\ cancel_requested

\* ---------------------------------------------------------------- C39
\* C39: with stop set by the client's cancel the bridge sends no text_delta
\* to the TTS gateway.
C39_NoTextDeltaAfterStop ==
    [][stop /\ cancel_requested /\ tts_sent' # tts_sent
          => tts_sent'[Len(tts_sent')].type # "text_delta"]_vars


\* ---------------------------------------------------------------- C31
\* C31: every audio_chunk, tts_end and error written for a session carries
\* the seq the session has when the frame is written.
C31_FramesCarrySessionSeq ==
    [][\A c \in Conns :
          wire'[c] # wire[c]
          => LET f == wire'[c][Len(wire'[c])] IN
             /\ f.type \in {"audio_chunk", "tts_end", "error"}
             /\ f.sid \in SessionIds
             /\ sess'[f.sid].exists
             => f.seq = sess'[f.sid].seq]_vars

\* ---------------------------------------------------------------- C34
\* C34: no two writer tasks take their messages from the send_queue of one
\* session.
C34_OneWriterPerQueue ==
    \A c \in Conns : \A d \in Conns :
       c # d /\ st[c] # None /\ st[c] = st[d]
       => ~(spc[c] = "get" /\ spc[d] = "get")


\* ---------------------------------------------------------------- C33
\* C33: no session has more than one synth loop running, whatever frames
\* its connections received.
C33_OneSynthLoop ==
    \A sid \in SessionIds :
       sess[sid].exists
       => /\ sess[sid].loops <= 1
          /\ sess[sid].loops = 1 <=> sess[sid].synth # "none"

\* Two connections started the same session, and a frame that calls
\* start_synth_loop_if_needed came in while the session's loop was running.
C33_Witness ==
    /\ st[1] = "s1" /\ st[2] = "s1"
    /\ sess["s1"].loops = 1
    /\ sess["s1"].synth = "busy"
    /\ sess["s1"].text_units # <<>>


\* ---------------------------------------------------------------- C32
\* The happy path has come to its end: the synth loop has drained the text
\* queue and exited, every chunk it produced was written, the last frame
\* written is a tts_end with the session's seq, which is the seq of the
\* text_end, and the connection is closed.
HappyEnd ==
    LET s == sess["s1"] IN
    /\ s.exists /\ s.finished
    /\ s.text_units = <<>> /\ s.synth = "none" /\ s.send_queue = <<>>
    /\ Cardinality(Sent(1, "audio_chunk")) = s.produced
    /\ \A u \in 1..s.enq : \E i \in Sent(1, "audio_chunk") : wire[1][i].unit = u
    /\ Sent(1, "tts_end") = {Len(wire[1])}
    /\ Last(wire[1]) = TtsEnd("s1", s.seq, FALSE)
    /\ wsClosed[1]
    /\ rpc[1] = "done"

\* C32: on the happy path, once text_end was received the run comes to its
\* end: the queue is drained, the loop has exited, tts_end with the seq of
\* the text_end follows all audio chunks, and the connection is closed.
C32_HappyPathEnds ==
    (sess["s1"].exists /\ sess["s1"].finished) ~> HappyEnd

\* The end of a happy path with two text units.
C32_Witness ==
    HappyEnd /\ sess["s1"].enq = 2 /\ sess["s1"].seq = 2


\* ---------------------------------------------------------------- C38
\* C38: a step that sends an error frame of some code to a peer counts it
\* once in errors_total_by_code under that code, and backpressure_total is
\* the count recorded for backpressure.
C38_ErrorsCountedOnce ==
    /\ [][\A k \in ErrorCodes :
             errors_sent'[k] = errors_sent[k] + 1
             => errors_total_by_code'[k] = errors_total_by_code[k] + 1]_vars
    /\ [](backpressure_total = errors_total_by_code["backpressure"])


\* A connection of /ws/run that is running under a run_id has its own
\* controller stored under that run_id.
RunningIsRegistered ==
    \A c \in RunConns :
        run_pc[c] = "running" /\ run_id[c] # None => controllers[run_id[c]] = c

\* Every entry of the registry belongs to a connection that is running.
NoEntryForFinished ==
    \A r \in RunIds : controllers[r] # 0 => run_pc[controllers[r]] = "running"

\* C36: the controller of a connection is registered under its run_id from
\* the connection's start to its teardown: the registry holds no entry of a
\* finished connection and holds the entry of every connection that is still
\* running, also when two connections name the same run_id.
C36_RegistryTracksRunning == RunningIsRegistered /\ NoEntryForFinished


\* ws_run is in the wait loop of a HumanReviewRequest.
InReview == review_pc \in {"top", "receive"}

InFlight(m) == \E i \in 1..Len(socket_in) : socket_in[i] = m

\* A step that takes an approve or a stop off the socket during the review
\* and neither ends the review nor requests the stop.
ConsumedAndDropped ==
    /\ InReview
    /\ socket_in # <<>>
    /\ Head(socket_in) \in {"approve", "stop"}
    /\ socket_in' = Tail(socket_in)
    /\ review_pc' \in {"top", "receive"}
    /\ stop_requested' = stop_requested

\* An approve sent during the review ends the wait.
ApproveIsServed == (InReview /\ InFlight("approve")) ~> ~InReview

\* A stop sent during the review ends the run.
StopIsServed == (InReview /\ InFlight("stop")) ~> review_pc = "stopped"

\* C40: while a HumanReviewRequest is pending, an approve of the client
\* eventually lets the run leave the review and a stop eventually ends the
\* run; no step takes either message off the socket and drops it.
C40_ReviewMessagesAreServed ==
    /\ [][~ConsumedAndDropped]_vars
    /\ ApproveIsServed
    /\ StopIsServed


\* The loop body is entered at most max_iters times.
AtMostMaxIters == iteration <= max_iters

\* A run that left its loop has yielded one FinalReport, last, whose
\* total_iterations is within max_iters and whose termination_reason is the
\* condition that holds.
EndsWithFinalReport ==
    loop_pc = "done" =>
        /\ final_reports = 1
        /\ last_event = "final"
        /\ final.total_iterations = iteration
        /\ final.total_iterations <= max_iters
        /\ final.termination_reason # ""
        /\ final.termination_reason = StopReason

\* A termination condition that holds at the top of the loop ends the run.
StopsAtOnce == loop_pc = "top" /\ ShouldStop => loop_pc' = "done"

\* The generator never ends without its FinalReport.
AlwaysReports == loop_pc # "raised"

\* C37: with max_iters = N >= 0 and iteration 0 at the start, OuterLoop.run
\* enters its loop body at most N times whatever the analyzer, planner,
\* implementer and optimizer return or raise, leaves the loop as soon as a
\* termination condition holds, and ends by yielding exactly one FinalReport,
\* with total_iterations <= N and the reason of the condition that stopped it.
C37_OuterLoopTerminates ==
    /\ [](AtMostMaxIters /\ EndsWithFinalReport /\ AlwaysReports)
    /\ [][StopsAtOnce]_vars

====
